---- MODULE Spec2Model ----
(***************************************************************************)
(* Safety & Compliance dashboard: the ingestion / normalisation pipeline   *)
(* (src/src/utils/data_processor.py, class SafetyDataProcessor) and the    *)
(* scoring layer built on it (src/src/logic/dashboard_analyzer.py, class   *)
(* DashboardAnalyzer).                                                     *)
(*                                                                         *)
(* Text is modelled at character level: a Python str is a sequence of      *)
(* characters, each character a TLA+ string.  ASCII characters stand for   *)
(* themselves ("a", "_", " ", "\n"); an Arabic letter is written by its    *)
(* Unicode name ("meem", "ghain", ...), since string literals are ASCII.   *)
(* The Arabic words of the source are defined once, in the glossary.       *)
(***************************************************************************)
EXTENDS Integers, Sequences, FiniteSets, TLC

(***************************************************************************)
(* Bounds of the model.                                                    *)
(***************************************************************************)
MaxCols == 3
MaxRows == 2

(***************************************************************************)
(* Evaluation.  Bind(v, F) is F(v) with v evaluated once: the parameter of *)
(* an operator stands for its argument expression, a bound variable holds  *)
(* a value.  Operators that read a string or a table many times bind it    *)
(* first.                                                                  *)
(***************************************************************************)
Bind(v, F(_)) == CHOOSE r \in {F(x) : x \in {v}} : TRUE

Bind2(v, w, F(_, _)) == CHOOSE r \in {F(x, y) : x \in {v}, y \in {w}} : TRUE

Bind3(u, v, w, F(_, _, _)) ==
    CHOOSE r \in {F(x, y, z) : x \in {u}, y \in {v}, z \in {w}} : TRUE

(***************************************************************************)
(* Characters and strings.                                                 *)
(***************************************************************************)
Whitespace == {" ", "\n", "\t"}

Digits == {"0", "1", "2", "3", "4", "5", "6", "7", "8", "9"}

UpperToLower ==
    [c \in {"A", "B", "C", "D", "E", "F", "G", "H", "I", "J", "K", "L", "M",
            "N", "O", "P", "Q", "R", "S", "T", "U", "V", "W", "X", "Y", "Z"} |->
        CASE c = "A" -> "a" [] c = "B" -> "b" [] c = "C" -> "c" [] c = "D" -> "d"
          [] c = "E" -> "e" [] c = "F" -> "f" [] c = "G" -> "g" [] c = "H" -> "h"
          [] c = "I" -> "i" [] c = "J" -> "j" [] c = "K" -> "k" [] c = "L" -> "l"
          [] c = "M" -> "m" [] c = "N" -> "n" [] c = "O" -> "o" [] c = "P" -> "p"
          [] c = "Q" -> "q" [] c = "R" -> "r" [] c = "S" -> "s" [] c = "T" -> "t"
          [] c = "U" -> "u" [] c = "V" -> "v" [] c = "W" -> "w" [] c = "X" -> "x"
          [] c = "Y" -> "y" [] c = "Z" -> "z"]

AsciiLetters == DOMAIN UpperToLower \cup {UpperToLower[c] : c \in DOMAIN UpperToLower}

\* The Arabic letters, by their Unicode names (U+0621, U+0623..U+063A, U+0641..U+064A).
ArabicLetters ==
    {"hamza", "alef_hamza_above", "waw_hamza_above", "alef_hamza_below",
     "yeh_hamza_above", "alef", "beh", "teh_marbuta", "teh", "theh", "jeem", "hah",
     "khah", "dal", "thal", "reh", "zain", "seen", "sheen", "sad", "dad", "tah", "zah",
     "ain", "ghain", "feh", "qaf", "kaf", "lam", "meem", "noon", "heh", "waw",
     "alef_maksura", "yeh"}

\* Python 3 re: \w on str matches Unicode letters, digits and the underscore.
WordChars == AsciiLetters \cup ArabicLetters \cup Digits \cup {"_"}

\* str.lower(), one character: only cased (here ASCII) letters change.
LowerChar(c) == IF c \in DOMAIN UpperToLower THEN UpperToLower[c] ELSE c

Lower(str) == Bind(str, LAMBDA s : [i \in 1..Len(s) |-> LowerChar(s[i])])

\* The characters of s from the first one outside `drop` on.
LStrip(str, drop) ==
    Bind(str, LAMBDA s :
        SubSeq(s, 1 + Cardinality({i \in 1..Len(s) : \A h \in 1..i : s[h] \in drop}), Len(s)))

\* The characters of s up to the last one outside `drop`.
RStrip(str, drop) ==
    Bind(str, LAMBDA s :
        SubSeq(s, 1, Len(s) - Cardinality({i \in 1..Len(s) : \A h \in i..Len(s) : s[h] \in drop})))

\* str.strip(): without an argument it drops whitespace, with one the given characters.
Strip(s) == RStrip(LStrip(s, Whitespace), Whitespace)

StripChars(s, drop) == RStrip(LStrip(s, drop), drop)

\* re.sub(r'<class>+', '_', s): every maximal run of characters of `class` becomes one "_".
SubRuns(str, class) ==
    Bind(str, LAMBDA s :
        SelectSeq([i \in 1..Len(s) |->
                      IF s[i] \notin class THEN s[i]
                      ELSE IF i > 1 /\ s[i - 1] \in class THEN "" ELSE "_"],
                  LAMBDA c : c # ""))

\* re.sub(r'[^\w_]', '', s): drop every character that is not a word character.
KeepWordChars(s) == SelectSeq(s, LAMBDA c : c \in WordChars)

StartsWith(str, prefix) ==
    Bind2(str, prefix, LAMBDA s, p : Len(s) >= Len(p) /\ SubSeq(s, 1, Len(p)) = p)

\* `p in s` for Python strings: p occurs in s as a contiguous substring.
Contains(str, part) ==
    Bind2(str, part, LAMBDA s, p :
        \E i \in 0..(Len(s) - Len(p)) : SubSeq(s, i + 1, i + Len(p)) = p)

\* Series.str.contains(p, case=False) for a pattern without metacharacters.
ContainsNoCase(s, p) == Contains(Lower(s), Lower(p))

\* str(n) for an integer n >= 0.
RECURSIVE NatToStr(_)
NatToStr(num) ==
    Bind(num, LAMBDA n :
        LET d == <<"0", "1", "2", "3", "4", "5", "6", "7", "8", "9">>[(n % 10) + 1]
        IN IF n < 10 THEN <<d>> ELSE NatToStr(n \div 10) \o <<d>>)

(***************************************************************************)
(* Glossary: the words of the source, character by character.  The comment *)
(* above each definition gives the word as the source spells it.           *)
(***************************************************************************)
\* تاريخ  (date)
AR_tarikh ==
    <<"teh", "alef", "reh", "yeh", "khah">>

\* عدد  (count)
AR_adad ==
    <<"ain", "dal", "dal">>

\* نسبة  (percentage)
AR_nisba ==
    <<"noon", "seen", "beh", "teh_marbuta">>

\* رقم  (number)
AR_raqm ==
    <<"reh", "qaf", "meem">>

\* حالة  (status)
AR_hala ==
    <<"hah", "alef", "lam", "teh_marbuta">>

\* التاريخ  (the canonical date column)
COL_DATE ==
    <<"alef", "lam", "teh", "alef", "reh", "yeh", "khah">>

\* الحالة  (the canonical status column)
COL_STATUS ==
    <<"alef", "lam", "hah", "alef", "lam", "teh_marbuta">>

\* الإدارة  (the canonical department column)
COL_DEPT ==
    <<"alef", "lam", "alef_hamza_below", "dal", "alef", "reh", "teh_marbuta">>

\* القطاع  (the sector column, used when there is no department column)
COL_SECTOR ==
    <<"alef", "lam", "qaf", "tah", "alef", "ain">>

\* النشاط  (the canonical activity column)
COL_ACTIVITY ==
    <<"alef", "lam", "noon", "sheen", "alef", "tah">>

\* التصنيف  (the canonical classification / risk level column)
COL_CLASS ==
    <<"alef", "lam", "teh", "sad", "noon", "yeh", "feh">>

\* التوصية_المقترحة  (the canonical recommendation column)
COL_RECOMMENDATION ==
    <<"alef", "lam", "teh", "waw", "sad", "yeh", "teh_marbuta", "_", "alef", "lam",
    "meem", "qaf", "teh", "reh", "hah", "teh_marbuta">>

\* نسبة_المخاطرة  (the canonical risk percentage column)
COL_RISK_PCT ==
    <<"noon", "seen", "beh", "teh_marbuta", "_", "alef", "lam", "meem", "khah", "alef",
    "tah", "reh", "teh_marbuta">>

\* مفتوح  (canonical Open)
ST_OPEN ==
    <<"meem", "feh", "teh", "waw", "hah">>

\* مغلق  (canonical Closed)
ST_CLOSED ==
    <<"meem", "ghain", "lam", "qaf">>

\* مكتمل  (complete)
ST_COMPLETE ==
    <<"meem", "kaf", "teh", "meem", "lam">>

\* قيد المراجعة  (in review)
ST_IN_REVIEW ==
    <<"qaf", "yeh", "dal", " ", "alef", "lam", "meem", "reh", "alef", "jeem", "ain",
    "teh_marbuta">>

\* عالي  (high)
RISK_HIGH ==
    <<"ain", "alef", "lam", "yeh">>

\* مرتفع  (elevated)
RISK_ELEVATED ==
    <<"meem", "reh", "teh", "feh", "ain">>

\* متوسط  (medium)
LVL_MEDIUM ==
    <<"meem", "teh", "waw", "seen", "tah">>

\* منخفض  (low)
LVL_LOW ==
    <<"meem", "noon", "khah", "feh", "dad">>

\* عاجل  (urgent)
LVL_URGENT ==
    <<"ain", "alef", "jeem", "lam">>

\* غير محدد  (undetermined)
LVL_UNDETERMINED ==
    <<"ghain", "yeh", "reh", " ", "meem", "hah", "dal", "dal">>

\* الكل  (the filter value meaning no filter)
ALL ==
    <<"alef", "lam", "kaf", "lam">>


(***************************************************************************)
(* Cell values.  A cell of a pandas table is null (NaN / NaT), a str, an   *)
(* int, a float or a Timestamp.  One record shape serves all kinds:        *)
(*   k = "null"                                                            *)
(*   k = "str",   s = the characters                                       *)
(*   k = "int",   n = the integer                                          *)
(*   k = "float", n = the value in hundredths (0.75 is n = 75)             *)
(*   k = "ts",    n = the date as days since 1970-01-01 (midnight)         *)
(***************************************************************************)
NULL == [k |-> "null", s |-> <<>>, n |-> 0]

VStr(s) == [k |-> "str", s |-> s, n |-> 0]

VInt(n) == [k |-> "int", s |-> <<>>, n |-> n]

VFloat(n) == [k |-> "float", s |-> <<>>, n |-> n]

VTs(n) == [k |-> "ts", s |-> <<>>, n |-> n]

\* pd.isna / pd.notna on a scalar.
IsNa(v) == v.k = "null"

NotNa(v) == v.k # "null"

(***************************************************************************)
(* The proleptic Gregorian calendar, as pandas' Timestamp uses it to turn  *)
(* "YYYY-MM-DD" text into a date and back.                                 *)
(***************************************************************************)
DaysFromCivil(y, m, d) ==
    LET yy  == IF m <= 2 THEN y - 1 ELSE y
        era == yy \div 400
        yoe == yy - era * 400
        mp  == IF m > 2 THEN m - 3 ELSE m + 9
        doy == (153 * mp + 2) \div 5 + d - 1
        doe == yoe * 365 + yoe \div 4 - yoe \div 100 + doy
    IN era * 146097 + doe - 719468

CivilFromDays(z) ==
    LET zz  == z + 719468
        era == zz \div 146097
        doe == zz - era * 146097
        yoe == (doe - doe \div 1460 + doe \div 36524 - doe \div 146096) \div 365
        doy == doe - (365 * yoe + yoe \div 4 - yoe \div 100)
        mp  == (5 * doy + 2) \div 153
        d   == doy - (153 * mp + 2) \div 5 + 1
        m   == IF mp < 10 THEN mp + 3 ELSE mp - 9
        y   == yoe + era * 400 + (IF m <= 2 THEN 1 ELSE 0)
    IN [y |-> y, m |-> m, d |-> d]

DaysInMonth(y, m) ==
    IF m = 2
    THEN (IF (y % 4 = 0 /\ y % 100 # 0) \/ y % 400 = 0 THEN 29 ELSE 28)
    ELSE IF m \in {4, 6, 9, 11} THEN 30 ELSE 31

DigitVal(c) ==
    CASE c = "0" -> 0 [] c = "1" -> 1 [] c = "2" -> 2 [] c = "3" -> 3 [] c = "4" -> 4
      [] c = "5" -> 5 [] c = "6" -> 6 [] c = "7" -> 7 [] c = "8" -> 8 [] c = "9" -> 9

IsDigits(str) == Bind(str, LAMBDA s : s # <<>> /\ \A i \in 1..Len(s) : s[i] \in Digits)

\* int(s) for a string of decimal digits.
RECURSIVE StrToNat(_)
StrToNat(str) ==
    Bind(str, LAMBDA s :
        IF s = <<>> THEN 0
        ELSE StrToNat(SubSeq(s, 1, Len(s) - 1)) * 10 + DigitVal(s[Len(s)]))

\* n >= 0 as text of at least `width` digits, zero-padded on the left.
RECURSIVE ZeroPad(_, _)
ZeroPad(str, width) ==
    Bind(str, LAMBDA s : IF Len(s) >= width THEN s ELSE ZeroPad(<<"0">> \o s, width))

\* The date part of str(Timestamp): "YYYY-MM-DD".
DateText(days) ==
    Bind(CivilFromDays(days), LAMBDA c :
        ZeroPad(NatToStr(c.y), 4) \o <<"-">> \o ZeroPad(NatToStr(c.m), 2)
          \o <<"-">> \o ZeroPad(NatToStr(c.d), 2))

\* Whether text is an ISO calendar date "YYYY-MM-DD" (surrounding blanks allowed).
IsIsoDate(text) ==
    Bind(Strip(text), LAMBDA s :
        /\ Len(s) = 10
        /\ s[5] = "-" /\ s[8] = "-"
        /\ IsDigits(SubSeq(s, 1, 4)) /\ IsDigits(SubSeq(s, 6, 7)) /\ IsDigits(SubSeq(s, 9, 10))
        /\ Bind3(StrToNat(SubSeq(s, 1, 4)), StrToNat(SubSeq(s, 6, 7)),
                 StrToNat(SubSeq(s, 9, 10)),
                 LAMBDA y, m, d : y >= 1 /\ m \in 1..12 /\ d >= 1 /\ d <= DaysInMonth(y, m)))

IsoDateDays(text) ==
    Bind(Strip(text), LAMBDA s :
        Bind3(StrToNat(SubSeq(s, 1, 4)), StrToNat(SubSeq(s, 6, 7)),
              StrToNat(SubSeq(s, 9, 10)), DaysFromCivil))

\* Text that no date parser reads as a date: here, text without any digit (a
\* digit-bearing text that is not an ISO date is outside the model's inputs).
IsDatelessText(text) == Bind(text, LAMBDA s : \A i \in 1..Len(s) : s[i] \notin Digits)

\* pd.to_datetime(x, errors='ignore'), one cell: text that is no date stays as it is.
ToDatetimeCellIgnore(v) ==
    CASE v.k = "null" -> NULL
      [] v.k = "ts" -> v
      [] v.k = "str" /\ IsIsoDate(v.s) -> VTs(IsoDateDays(v.s))
      [] v.k = "str" /\ ~IsIsoDate(v.s) /\ IsDatelessText(v.s) -> v
      [] v.k \in {"int", "float"} /\ v.n >= 0 -> VTs(0)

\* pd.to_datetime(x, errors='coerce'), one cell: a Timestamp stays, ISO date text is
\* parsed, text that is no date becomes NaT, a small number counts nanoseconds
\* from the epoch and so falls on 1970-01-01.
ToDatetimeCell(v) ==
    CASE v.k = "null" -> NULL
      [] v.k = "ts" -> v
      [] v.k = "str" /\ IsIsoDate(v.s) -> VTs(IsoDateDays(v.s))
      [] v.k = "str" /\ ~IsIsoDate(v.s) /\ IsDatelessText(v.s) -> NULL
      [] v.k \in {"int", "float"} /\ v.n >= 0 -> VTs(0)

\* Whether text is a plain decimal number: digits, optionally "." and one or two
\* more digits (surrounding blanks allowed, as pd.to_numeric allows them).
IsDecimalText(text) ==
    Bind(Strip(text), LAMBDA s :
        \/ IsDigits(s)
        \/ \E i \in 2..(Len(s) - 1) :
              /\ s[i] = "."
              /\ IsDigits(SubSeq(s, 1, i - 1))
              /\ IsDigits(SubSeq(s, i + 1, Len(s)))
              /\ Len(s) - i <= 2)

\* The value of a plain decimal number, in hundredths.
DecimalHundredths(text) ==
    Bind(Strip(text), LAMBDA s :
        IF IsDigits(s) THEN StrToNat(s) * 100
        ELSE LET i == CHOOSE j \in 2..(Len(s) - 1) : s[j] = "."
                 frac == SubSeq(s, i + 1, Len(s))
             IN StrToNat(SubSeq(s, 1, i - 1)) * 100
                  + (IF Len(frac) = 1 THEN StrToNat(frac) * 10 ELSE StrToNat(frac)))

\* Text that pd.to_numeric cannot read: here, text without any digit that is none
\* of the words the parser knows ("nan", "inf", "infinity", signed or not).
IsNumberlessText(text) ==
    /\ IsDatelessText(text)
    /\ Lower(StripChars(Strip(text), {"+", "-"})) \notin
          {<<"n", "a", "n">>, <<"i", "n", "f">>, <<"i", "n", "f", "i", "n", "i", "t", "y">>}

\* pd.to_numeric(x, errors='coerce'), one cell, before the column-wide choice between
\* int64 and float64: unparsable text becomes NaN.
ToNumericCell(cell) ==
    Bind(cell, LAMBDA v :
        CASE v.k = "null" -> NULL
          [] v.k \in {"int", "float"} -> v
          [] v.k = "str" /\ IsDecimalText(v.s) ->
                IF IsDigits(Strip(v.s)) THEN VInt(StrToNat(Strip(v.s)))
                ELSE VFloat(DecimalHundredths(v.s))
          [] v.k = "str" /\ ~IsDecimalText(v.s) /\ IsNumberlessText(v.s) -> NULL)

\* repr of a float >= 0 given in hundredths: 500 is "5.0", 75 is "0.75", 50 is "0.5".
FloatText(num) ==
    Bind(num, LAMBDA n :
        LET whole == NatToStr(n \div 100)
            frac  == n % 100
        IN whole \o <<".">> \o
             (IF frac % 10 = 0 THEN NatToStr(frac \div 10) ELSE ZeroPad(NatToStr(frac), 2)))

\* str(x) of one Python object, as Series.astype(str) applies it to the cells of an
\* object column and as the header promotion applies it to the cells of a row.
ToStr(cell) ==
    Bind(cell, LAMBDA v :
        CASE v.k = "null" -> <<"n", "a", "n">>
          [] v.k = "str" -> v.s
          [] v.k = "int" /\ v.n >= 0 -> NatToStr(v.n)
          [] v.k = "float" /\ v.n >= 0 -> FloatText(v.n)
          [] v.k = "ts" -> DateText(v.n) \o <<" ", "0", "0", ":", "0", "0", ":", "0", "0">>)

(***************************************************************************)
(* Column Normalizer: _clean_column_names and _handle_duplicate_columns.   *)
(***************************************************************************)
\* f"col_{idx}", idx the 0-based position of the label.
ColPlaceholder(idx) == <<"c", "o", "l", "_">> \o NatToStr(idx)

Unnamed == <<"U", "n", "n", "a", "m", "e", "d">>

\* The body of the loop of _clean_column_names for a str label (lines 233-247).
CleanLabelText(text, idx) ==
    LET s1 == Strip(text)
        s2 == SubRuns(s1, {"\n"})
        s3 == SubRuns(s2, Whitespace)
        s4 == KeepWordChars(s3)
    IN Bind(StripChars(SubRuns(s4, {"_"}), {"_"}),
            LAMBDA s5 : IF s5 = <<>> THEN ColPlaceholder(idx) ELSE s5)

\* _clean_column_names: `columns` is a sequence of labels as the reader (or the
\* header promotion) hands them over: cells, str(col) of which is cleaned, or null.
CleanColumnNames(columns) ==
    Bind(columns, LAMBDA cs :
        [i \in 1..Len(cs) |->
            IF IsNa(cs[i]) \/ StartsWith(ToStr(cs[i]), Unnamed)
            THEN ColPlaceholder(i - 1)
            ELSE CleanLabelText(ToStr(cs[i]), i - 1)])

\* The loop of _handle_duplicate_columns: `seen` maps each label met so far to the
\* number of its repetitions; `done` is new_cols.
RECURSIVE DedupLoop(_, _, _)
DedupLoop(columns, seen_columns, new_cols) ==
    Bind3(columns, seen_columns, new_cols, LAMBDA cols, seen, done :
        IF cols = <<>> THEN done
        ELSE LET col == Head(cols)
             IN IF col \in DOMAIN seen
                THEN DedupLoop(Tail(cols),
                               [seen EXCEPT ![col] = @ + 1],
                               Append(done, col \o <<"_">> \o NatToStr(seen[col] + 1)))
                ELSE DedupLoop(Tail(cols),
                               [l \in DOMAIN seen \cup {col} |->
                                   IF l = col THEN 0 ELSE seen[l]],
                               Append(done, col)))

HandleDuplicateColumns(cols) == DedupLoop(cols, <<>>, <<>>)

(***************************************************************************)
(* Tables.  A DataFrame is a record                                        *)
(*   cols   : the column labels, in order (labels may repeat)              *)
(*   dtypes : the dtype of each column                                     *)
(*   rows   : the rows, in order, each a sequence of cells                 *)
(* A table as a reader returns it has cells as labels (a label may be      *)
(* null); once _clean_column_names has run the labels are strings.         *)
(***************************************************************************)
NCols(df) == Len(df.cols)

NRows(df) == Len(df.rows)

\* DataFrame.empty: an axis of length 0.
IsEmpty(df) == Bind(df, LAMBDA d : NRows(d) = 0 \/ NCols(d) = 0)

ColumnValues(df, j) == Bind(df, LAMBDA d : [i \in 1..NRows(d) |-> d.rows[i][j]])

\* The positions of the columns labelled `label` (several when the label repeats).
Positions(df, label) ==
    Bind2(df, label, LAMBDA d, l : {j \in 1..NCols(d) : d.cols[j] = l})

HasColumn(df, label) == Positions(df, label) # {}

IsDuplicated(df, label) == Cardinality(Positions(df, label)) > 1

\* The dtype a reader infers for a column from its cells.
InferDtype(values) ==
    Bind(values, LAMBDA vs :
        Bind({vs[i].k : i \in 1..Len(vs)}, LAMBDA kinds :
            IF kinds \subseteq {"int"} /\ kinds # {} THEN "int64"
            ELSE IF kinds \subseteq {"int", "float", "null"} THEN "float64"
            ELSE IF kinds \subseteq {"ts", "null"} THEN "datetime64"
            ELSE "object"))

\* A cell as a column of dtype `dtype` stores it: a float64 column holds its
\* integers as floats.
StoreAs(cell, dtype) ==
    Bind(cell, LAMBDA v : IF dtype = "float64" /\ v.k = "int" THEN VFloat(v.n * 100) ELSE v)

\* pd.read_csv / pd.read_excel: the labels and rows of the file with the dtypes inferred.
ReadTable(file) ==
    Bind(file, LAMBDA raw :
        Bind([j \in 1..Len(raw.cols) |->
                 InferDtype([i \in 1..Len(raw.rows) |-> raw.rows[i][j]])],
             LAMBDA dts :
                 [cols   |-> raw.cols,
                  dtypes |-> dts,
                  rows   |-> [i \in 1..Len(raw.rows) |->
                                [j \in 1..Len(raw.cols) |->
                                    StoreAs(raw.rows[i][j], dts[j])]]]))

\* The table with only the columns at the positions `keep` (a sequence of positions).
SelectColumns(df, keep) ==
    Bind2(df, keep, LAMBDA d, k :
        [cols   |-> [j \in 1..Len(k) |-> d.cols[k[j]]],
         dtypes |-> [j \in 1..Len(k) |-> d.dtypes[k[j]]],
         rows   |-> [i \in 1..NRows(d) |-> [j \in 1..Len(k) |-> d.rows[i][k[j]]]]])

\* The increasing sequence of the members of a set of positions.
RECURSIVE SortedSeq(_)
SortedSeq(positions) ==
    Bind(positions, LAMBDA S :
        IF S = {} THEN <<>>
        ELSE Bind(CHOOSE x \in S : \A y \in S : x <= y,
                  LAMBDA m : <<m>> \o SortedSeq(S \ {m})))

\* df.dropna(how='all').dropna(axis=1, how='all')
DropEmpty(df) ==
    Bind(df, LAMBDA d :
        Bind([d EXCEPT !.rows = SelectSeq(d.rows, LAMBDA r : \E j \in 1..Len(r) : NotNa(r[j]))],
             LAMBDA d1 :
                 SelectColumns(d1, SortedSeq({j \in 1..NCols(d1) :
                                                \E i \in 1..NRows(d1) : NotNa(d1.rows[i][j])}))))

\* df[label] = f(df[label]) for a label that names one column: the cells of that
\* column are mapped by f and the column gets the dtype `dtype`.
MapColumn(df, j, f(_), dtype) ==
    Bind(df, LAMBDA d :
        [d EXCEPT !.dtypes[j] = dtype,
                  !.rows = [i \in 1..NRows(d) |-> [d.rows[i] EXCEPT ![j] = f(d.rows[i][j])]]])

(***************************************************************************)
(* Header Promoter: _is_potential_header_row and lines 185-193 of          *)
(* _clean_dataframe.                                                       *)
(***************************************************************************)
\* x.strip().replace('.', '', 1).isdigit()
RemoveFirstDot(str) ==
    Bind(str, LAMBDA s :
        IF \E i \in 1..Len(s) : s[i] = "."
        THEN Bind(CHOOSE j \in 1..Len(s) : s[j] = "." /\ \A h \in 1..(j - 1) : s[h] # ".",
                  LAMBDA i : SubSeq(s, 1, i - 1) \o SubSeq(s, i + 1, Len(s)))
        ELSE s)

LooksNumeric(text) == IsDigits(RemoveFirstDot(Strip(text)))

StringLikeCount(row) ==
    Bind(row, LAMBDA r : Cardinality({j \in 1..Len(r) : r[j].k = "str" /\ ~LooksNumeric(r[j].s)}))

NotNaCount(row) == Bind(row, LAMBDA r : Cardinality({j \in 1..Len(r) : NotNa(r[j])}))

\* _is_potential_header_row(row): row is df.iloc[0], index its labels.  The ratios
\* are compared without division: c / n > 0.5 is 2c > n, c > len * 0.3 is 10c > 3 len.
IsPotentialHeaderRow(first_row, labels_in) ==
    Bind2(first_row, labels_in, LAMBDA row, index :
        \/ NotNaCount(row) > 0 /\ 2 * StringLikeCount(row) > NotNaCount(row)
        \/ /\ \E j \in 1..Len(index) : StartsWith(index[j], Unnamed)
           /\ 10 * StringLikeCount(row) > 3 * Len(row))

(***************************************************************************)
(* Column Mapper: _rename_columns and _clean_name_for_matching.  A column  *)
(* mapping (a dict) is a sequence of <<key, value>> pairs in insertion     *)
(* order.                                                                  *)
(***************************************************************************)
CleanNameForMatching(name) ==
    LET s1 == Lower(Strip(name))
        s2 == SubRuns(s1, {"\n"})
        s3 == SubRuns(s2, Whitespace)
    IN StripChars(SubRuns(s3, {"_"}), {"_"})

\* reverse_mapping: in a dict comprehension a later pair with the same key wins.
ReverseMappingKeys(column_mapping) ==
    Bind(column_mapping, LAMBDA cm : {CleanNameForMatching(cm[i][1]) : i \in 1..Len(cm)})

ReverseMappingGet(column_mapping, key) ==
    Bind2(column_mapping, key, LAMBDA cm, k :
        cm[CHOOSE i \in 1..Len(cm) :
               /\ CleanNameForMatching(cm[i][1]) = k
               /\ \A h \in (i + 1)..Len(cm) : CleanNameForMatching(cm[h][1]) # k][2])

RenameColumns(columns, column_mapping) ==
    Bind2(columns, ReverseMappingKeys(column_mapping), LAMBDA cols, keys :
        [j \in 1..Len(cols) |->
            Bind(CleanNameForMatching(cols[j]), LAMBDA cleaned_col :
                IF cleaned_col \in keys
                THEN ReverseMappingGet(column_mapping, cleaned_col)
                ELSE cols[j])])

(***************************************************************************)
(* Type Coercer: _standardize_data_types.                                  *)
(***************************************************************************)
DateKeywords == {AR_tarikh, <<"d", "a", "t", "e">>}

NumericKeywords ==
    {AR_adad, AR_nisba, AR_raqm, <<"n", "u", "m", "b", "e", "r">>,
     <<"c", "o", "u", "n", "t">>, <<"p", "e", "r", "c", "e", "n", "t", "a", "g", "e">>}

\* any(keyword in col.lower() for keyword in keywords)
HasKeyword(col, keywords) == Bind(Lower(col), LAMBDA c : \E kw \in keywords : Contains(c, kw))

IsDateColumn(col) == HasKeyword(col, DateKeywords)

IsNumericColumn(col) == ~IsDateColumn(col) /\ HasKeyword(col, NumericKeywords)

\* The dtype of pd.to_numeric's result: int64 when every cell is an integer,
\* float64 otherwise.
NumericDtype(values) ==
    Bind(values, LAMBDA vs :
        IF vs # <<>> /\ \A i \in 1..Len(vs) : ToNumericCell(vs[i]).k = "int"
        THEN "int64" ELSE "float64")

\* One pass of the loop body for the column at position j (its label is unique).
CoerceColumn(df, j) ==
    Bind(df, LAMBDA d :
        IF IsDateColumn(d.cols[j])
        THEN MapColumn(d, j, ToDatetimeCell, "datetime64")
        ELSE IF IsNumericColumn(d.cols[j])
        THEN Bind(NumericDtype(ColumnValues(d, j)), LAMBDA dt :
                 MapColumn(d, j, LAMBDA v : StoreAs(ToNumericCell(v), dt), dt))
        ELSE d)

RECURSIVE CoerceFrom(_, _)
CoerceFrom(df, j) ==
    Bind(df, LAMBDA d : IF j > NCols(d) THEN d ELSE CoerceFrom(CoerceColumn(d, j), j + 1))

\* df[col] is a DataFrame when the label repeats; pd.to_datetime and pd.to_numeric
\* raise on it.
CoercionRaises(df) ==
    Bind(df, LAMBDA d :
        \E j \in 1..NCols(d) :
            /\ IsDateColumn(d.cols[j]) \/ IsNumericColumn(d.cols[j])
            /\ IsDuplicated(d, d.cols[j]))

StandardizeDataTypes(df) == CoerceFrom(df, 1)

(***************************************************************************)
(* Text Canonicalizer: _clean_text_data.                                   *)
(***************************************************************************)
\* astype(str).str.strip(), then 'nan' and '' replaced by NaN: one cell.
CleanTextCell(v) ==
    Bind(Strip(ToStr(v)), LAMBDA t : IF t = <<"n", "a", "n">> \/ t = <<>> THEN NULL ELSE VStr(t))

\* The loop over the object columns, from position j on.  df[col] of a repeated label
\* is a DataFrame, which has no .str: the AttributeError ends the loop, the except
\* clause returns df with the columns cleaned so far.
RECURSIVE CleanTextFrom(_, _)
CleanTextFrom(df, j) ==
    Bind(df, LAMBDA d :
        IF j > NCols(d) THEN d
        ELSE IF d.dtypes[j] # "object" THEN CleanTextFrom(d, j + 1)
        ELSE IF IsDuplicated(d, d.cols[j]) THEN d
        ELSE CleanTextFrom(MapColumn(d, j, CleanTextCell, "object"), j + 1))

CleanTextData(df) == Bind(df, LAMBDA d : IF IsEmpty(d) THEN d ELSE CleanTextFrom(d, 1))

(***************************************************************************)
(* Status Canonicalizer: _standardize_status_values.                       *)
(***************************************************************************)
\* status_mappings, as <<key, value>> pairs.
status_mappings ==
    <<<<<<"meem", "feh", "teh", "waw", "hah", " ", "-", " ", "O", "p", "e", "n">>,
        ST_OPEN>>,
      <<<<"meem", "ghain", "lam", "qaf", " ", "-", " ", "C", "l", "o", "s", "e">>,
        ST_CLOSED>>,
      <<<<"meem", "ghain", "lam", "qaf", " ", "-", " ", "C", "l", "o", "s", "e", "d">>,
        ST_CLOSED>>,
      <<<<"C", "l", "o", "s", "e", "d", " ", "-", " ", "C", "l", "o", "s", "e">>,
        ST_CLOSED>>,
      <<<<"O", "p", "e", "n">>,
        ST_OPEN>>,
      <<<<"C", "l", "o", "s", "e">>,
        ST_CLOSED>>,
      <<<<"C", "l", "o", "s", "e", "d">>,
        ST_CLOSED>>,
      <<<<"meem", "kaf", "teh", "meem", "lam">>,
        ST_CLOSED>>,
      <<<<"c", "o", "m", "p", "l", "e", "t", "e">>,
        ST_CLOSED>>,
      <<<<"c", "o", "m", "p", "l", "e", "t", "e", "d">>,
        ST_CLOSED>>,
      <<<<"qaf", "yeh", "dal", " ", "alef", "lam", "meem", "reh", "alef", "jeem", "ain",
        "teh_marbuta">>,
        ST_OPEN>>,
      <<<<"i", "n", " ", "r", "e", "v", "i", "e", "w">>,
        ST_OPEN>>,
      <<<<"p", "e", "n", "d", "i", "n", "g">>,
        ST_OPEN>>>>

StatusKeys == {status_mappings[i][1] : i \in 1..Len(status_mappings)}

\* status_mappings.get(x.lower(), x): the lookup by the lower-cased value, under which
\* the capitalised keys of the table are never found.
StatusGetLowered(key) ==
    Bind(key, LAMBDA x :
        IF Lower(x) \in StatusKeys
        THEN status_mappings[CHOOSE i \in 1..Len(status_mappings) :
                                status_mappings[i][1] = Lower(x)][2]
        ELSE x)

\* status_mappings.get(x, x)
StatusGet(key) ==
    Bind(key, LAMBDA x :
        IF x \in StatusKeys
        THEN status_mappings[CHOOSE i \in 1..Len(status_mappings) :
                                status_mappings[i][1] = x][2]
        ELSE x)

StatusKeywords ==
    {AR_hala, <<"s", "t", "a", "t", "u", "s">>, <<"s", "t", "a", "t", "e">>}

IsStatusColumn(col) == HasKeyword(col, StatusKeywords)

\* lambda x: status_mappings.get(x, 'مفتوح') if pd.notna(x) else x: a value the table
\* does not hold becomes Open.
StandardizeStatusCellDefaultOpen(cell) ==
    Bind(cell, LAMBDA v :
        IF v.k = "str" THEN VStr(IF v.s \in StatusKeys THEN StatusGet(v.s) ELSE ST_OPEN) ELSE v)

\* lambda x: status_mappings.get(x, x) if pd.notna(x) else x
StandardizeStatusCell(cell) ==
    Bind(cell, LAMBDA v : IF v.k = "str" THEN VStr(StatusGet(v.s)) ELSE v)

RECURSIVE StatusFrom(_, _)
StatusFrom(df, j) ==
    Bind(df, LAMBDA d :
        IF j > NCols(d) THEN d
        ELSE IF IsStatusColumn(d.cols[j])
        THEN StatusFrom(MapColumn(d, j, StandardizeStatusCell, d.dtypes[j]), j + 1)
        ELSE StatusFrom(d, j + 1))

\* df[col].apply(f) of a repeated label hands f whole columns; pd.notna of a column
\* is no truth value and the conditional raises.
StatusRaises(df) ==
    Bind(df, LAMBDA d :
        \E j \in 1..NCols(d) : IsStatusColumn(d.cols[j]) /\ IsDuplicated(d, d.cols[j]))

StandardizeStatusValues(df) == StatusFrom(df, 1)

(***************************************************************************)
(* DATA_CONFIG: the fallback of lines 26-62 (config.settings is not among  *)
(* the sources).  The model keeps the entries of the sources it loads: one *)
(* workbook with an inspections, an incidents and a risk assessments       *)
(* sheet, and four CSV files.  The other entries name files that are not   *)
(* there, which load_all_data skips, and sheets that are not in the        *)
(* workbook.  The keys of the column mappings are spelled as the config    *)
(* spells them (trailing blanks and line breaks included).                 *)
(***************************************************************************)
\* 'inspections'
TYPE_INSPECTIONS ==
    <<"i", "n", "s", "p", "e", "c", "t", "i", "o", "n", "s">>

\* 'incidents'
TYPE_INCIDENTS ==
    <<"i", "n", "c", "i", "d", "e", "n", "t", "s">>

\* 'risk_assessments'
TYPE_RISK_ASSESSMENTS ==
    <<"r", "i", "s", "k", "_", "a", "s", "s", "e", "s", "s", "m", "e", "n", "t", "s">>

\* DATA_CONFIG["excel_files"]: the workbook of line 29 with its sheets of lines 32, 35
\* and 37.
excel_files ==
    <<[\* 'sample-of-data.xlsx'
       filename |-> <<"s", "a", "m", "p", "l", "e", "-", "o", "f", "-", "d", "a", "t",
                     "a", ".", "x", "l", "s", "x">>,
       sheets |-> <<
         \* line 32: 'ملاحظات التفتيش', 'inspections'
         [name |-> <<"meem", "lam", "alef", "hah", "zah", "alef", "teh", " ", "alef",
                     "lam", "teh", "feh", "teh", "yeh", "sheen">>,
          unified_type |-> TYPE_INSPECTIONS,
          column_mapping |->
            <<
              \* 'الرقم ': 'الرقم'
              <<<<"alef", "lam", "reh", "qaf", "meem", " ">>,
                <<"alef", "lam", "reh", "qaf", "meem">>>>,
              \* 'تاريخ الملاحظة': 'التاريخ'
              <<<<"teh", "alef", "reh", "yeh", "khah", " ", "alef", "lam", "meem",
                  "lam", "alef", "hah", "zah", "teh_marbuta">>,
                COL_DATE>>,
              \* 'تصنيف النشاط': 'النشاط'
              <<<<"teh", "sad", "noon", "yeh", "feh", " ", "alef", "lam", "noon",
                  "sheen", "alef", "tah">>,
                COL_ACTIVITY>>,
              \* 'الحالة ': 'الحالة'
              <<<<"alef", "lam", "hah", "alef", "lam", "teh_marbuta", " ">>,
                COL_STATUS>>,
              \* 'الإدارة المسئولة عن تنفيذ التوصية': 'الإدارة'
              <<<<"alef", "lam", "alef_hamza_below", "dal", "alef", "reh",
                  "teh_marbuta", " ", "alef", "lam", "meem", "seen", "yeh_hamza_above",
                  "waw", "lam", "teh_marbuta", " ", "ain", "noon", " ", "teh", "noon",
                  "feh", "yeh", "thal", " ", "alef", "lam", "teh", "waw", "sad", "yeh",
                  "teh_marbuta">>,
                COL_DEPT>>,
              \* 'التصنيف ': 'التصنيف'
              <<<<"alef", "lam", "teh", "sad", "noon", "yeh", "feh", " ">>,
                COL_CLASS>>
            >>],
         \* line 35: 'توصيات الحوادث', 'incidents'
         [name |-> <<"teh", "waw", "sad", "yeh", "alef", "teh", " ", "alef", "lam",
                     "hah", "waw", "alef", "dal", "theh">>,
          unified_type |-> TYPE_INCIDENTS,
          column_mapping |->
            <<
              \* 'تاريخ الحادث': 'التاريخ'
              <<<<"teh", "alef", "reh", "yeh", "khah", " ", "alef", "lam", "hah",
                  "alef", "dal", "theh">>,
                COL_DATE>>,
              \* 'حالة التوصية': 'الحالة'
              <<<<"hah", "alef", "lam", "teh_marbuta", " ", "alef", "lam", "teh", "waw",
                  "sad", "yeh", "teh_marbuta">>,
                COL_STATUS>>,
              \* 'الإدارة المسئولة عن تنفيذ التوصية': 'الإدارة'
              <<<<"alef", "lam", "alef_hamza_below", "dal", "alef", "reh",
                  "teh_marbuta", " ", "alef", "lam", "meem", "seen", "yeh_hamza_above",
                  "waw", "lam", "teh_marbuta", " ", "ain", "noon", " ", "teh", "noon",
                  "feh", "yeh", "thal", " ", "alef", "lam", "teh", "waw", "sad", "yeh",
                  "teh_marbuta">>,
                COL_DEPT>>,
              \* 'تصنيف النشاط': 'النشاط'
              <<<<"teh", "sad", "noon", "yeh", "feh", " ", "alef", "lam", "noon",
                  "sheen", "alef", "tah">>,
                COL_ACTIVITY>>,
              \* 'وصف مختصر عن الحادث': 'الوصف'
              <<<<"waw", "sad", "feh", " ", "meem", "khah", "teh", "sad", "reh", " ",
                  "ain", "noon", " ", "alef", "lam", "hah", "alef", "dal", "theh">>,
                <<"alef", "lam", "waw", "sad", "feh">>>>,
              \* 'تصنيف الحادث': 'نوع_الحادث'
              <<<<"teh", "sad", "noon", "yeh", "feh", " ", "alef", "lam", "hah", "alef",
                  "dal", "theh">>,
                <<"noon", "waw", "ain", "_", "alef", "lam", "hah", "alef", "dal", "theh">>>>
            >>],
         \* line 37: 'توصيات تقييم المخاطر', 'risk_assessments'
         [name |-> <<"teh", "waw", "sad", "yeh", "alef", "teh", " ", "teh", "qaf",
                     "yeh", "yeh", "meem", " ", "alef", "lam", "meem", "khah", "alef",
                     "tah", "reh">>,
          unified_type |-> TYPE_RISK_ASSESSMENTS,
          column_mapping |->
            <<
              \* 'تاريخ التقييم': 'التاريخ'
              <<<<"teh", "alef", "reh", "yeh", "khah", " ", "alef", "lam", "teh", "qaf",
                  "yeh", "yeh", "meem">>,
                COL_DATE>>,
              \* 'حالة التوصية': 'الحالة'
              <<<<"hah", "alef", "lam", "teh_marbuta", " ", "alef", "lam", "teh", "waw",
                  "sad", "yeh", "teh_marbuta">>,
                COL_STATUS>>,
              \* 'الإدارة المسئولة عن تنفيذ التوصية': 'الإدارة'
              <<<<"alef", "lam", "alef_hamza_below", "dal", "alef", "reh",
                  "teh_marbuta", " ", "alef", "lam", "meem", "seen", "yeh_hamza_above",
                  "waw", "lam", "teh_marbuta", " ", "ain", "noon", " ", "teh", "noon",
                  "feh", "yeh", "thal", " ", "alef", "lam", "teh", "waw", "sad", "yeh",
                  "teh_marbuta">>,
                COL_DEPT>>,
              \* 'تصنيف النشاط': 'النشاط'
              <<<<"teh", "sad", "noon", "yeh", "feh", " ", "alef", "lam", "noon",
                  "sheen", "alef", "tah">>,
                COL_ACTIVITY>>,
              \* 'نسب المخاطرة': 'نسبة_المخاطرة'
              <<<<"noon", "seen", "beh", " ", "alef", "lam", "meem", "khah", "alef",
                  "tah", "reh", "teh_marbuta">>,
                COL_RISK_PCT>>,
              \* 'الإجراءات التصحيحية والتوصيات': 'التوصية_المقترحة'
              <<<<"alef", "lam", "alef_hamza_below", "jeem", "reh", "alef", "hamza",
                  "alef", "teh", " ", "alef", "lam", "teh", "sad", "hah", "yeh", "hah",
                  "yeh", "teh_marbuta", " ", "waw", "alef", "lam", "teh", "waw", "sad",
                  "yeh", "alef", "teh">>,
                COL_RECOMMENDATION>>
            >>]
       >>]>>

\* DATA_CONFIG["csv_files"]: the files of lines 54, 55, 58 and 59.
csv_files ==
    <<
      \* line 54: 'التفتيش.csv', 'inspections'
      [filename |-> <<"alef", "lam", "teh", "feh", "teh", "yeh", "sheen", ".", "c", "s",
                      "v">>,
       unified_type |-> TYPE_INSPECTIONS,
       column_mapping |->
         <<
           \* 'الرقم ': 'الرقم'
           <<<<"alef", "lam", "reh", "qaf", "meem", " ">>,
             <<"alef", "lam", "reh", "qaf", "meem">>>>,
           \* 'تاريخ الملاحظة': 'التاريخ'
           <<<<"teh", "alef", "reh", "yeh", "khah", " ", "alef", "lam", "meem", "lam",
               "alef", "hah", "zah", "teh_marbuta">>,
             COL_DATE>>,
           \* 'تصنيف النشاط': 'النشاط'
           <<<<"teh", "sad", "noon", "yeh", "feh", " ", "alef", "lam", "noon", "sheen",
               "alef", "tah">>,
             COL_ACTIVITY>>,
           \* 'الحالة ': 'الحالة'
           <<<<"alef", "lam", "hah", "alef", "lam", "teh_marbuta", " ">>,
             COL_STATUS>>,
           \* 'الإدارة المسئولة عن تنفيذ التوصية': 'الإدارة'
           <<<<"alef", "lam", "alef_hamza_below", "dal", "alef", "reh", "teh_marbuta",
               " ", "alef", "lam", "meem", "seen", "yeh_hamza_above", "waw", "lam",
               "teh_marbuta", " ", "ain", "noon", " ", "teh", "noon", "feh", "yeh",
               "thal", " ", "alef", "lam", "teh", "waw", "sad", "yeh", "teh_marbuta">>,
             COL_DEPT>>,
           \* 'التصنيف ': 'التصنيف'
           <<<<"alef", "lam", "teh", "sad", "noon", "yeh", "feh", " ">>,
             COL_CLASS>>
         >>],
      \* line 55: 'الحوادث.csv', 'incidents'
      [filename |-> <<"alef", "lam", "hah", "waw", "alef", "dal", "theh", ".", "c", "s",
                      "v">>,
       unified_type |-> TYPE_INCIDENTS,
       column_mapping |->
         <<
           \* 'رقم الإجراء / التوصية ': 'الرقم'
           <<<<"reh", "qaf", "meem", " ", "alef", "lam", "alef_hamza_below", "jeem",
               "reh", "alef", "hamza", " ", "/", " ", "alef", "lam", "teh", "waw",
               "sad", "yeh", "teh_marbuta", " ">>,
             <<"alef", "lam", "reh", "qaf", "meem">>>>,
           \* 'تاريخ الحادث': 'التاريخ'
           <<<<"teh", "alef", "reh", "yeh", "khah", " ", "alef", "lam", "hah", "alef",
               "dal", "theh">>,
             COL_DATE>>,
           \* 'حالة التوصية': 'الحالة'
           <<<<"hah", "alef", "lam", "teh_marbuta", " ", "alef", "lam", "teh", "waw",
               "sad", "yeh", "teh_marbuta">>,
             COL_STATUS>>,
           \* 'الإدارة المسئولة عن تنفيذ التوصية': 'الإدارة'
           <<<<"alef", "lam", "alef_hamza_below", "dal", "alef", "reh", "teh_marbuta",
               " ", "alef", "lam", "meem", "seen", "yeh_hamza_above", "waw", "lam",
               "teh_marbuta", " ", "ain", "noon", " ", "teh", "noon", "feh", "yeh",
               "thal", " ", "alef", "lam", "teh", "waw", "sad", "yeh", "teh_marbuta">>,
             COL_DEPT>>,
           \* 'تصنيف النشاط': 'النشاط'
           <<<<"teh", "sad", "noon", "yeh", "feh", " ", "alef", "lam", "noon", "sheen",
               "alef", "tah">>,
             COL_ACTIVITY>>,
           \* 'وصف مختصر عن الحادث': 'الوصف'
           <<<<"waw", "sad", "feh", " ", "meem", "khah", "teh", "sad", "reh", " ",
               "ain", "noon", " ", "alef", "lam", "hah", "alef", "dal", "theh">>,
             <<"alef", "lam", "waw", "sad", "feh">>>>,
           \* 'تصنيف الحادث': 'نوع_الحادث'
           <<<<"teh", "sad", "noon", "yeh", "feh", " ", "alef", "lam", "hah", "alef",
               "dal", "theh">>,
             <<"noon", "waw", "ain", "_", "alef", "lam", "hah", "alef", "dal", "theh">>>>
         >>],
      \* line 58: 'تقييم_المخاطر.csv', 'risk_assessments'
      [filename |-> <<"teh", "qaf", "yeh", "yeh", "meem", "_", "alef", "lam", "meem",
                      "khah", "alef", "tah", "reh", ".", "c", "s", "v">>,
       unified_type |-> TYPE_RISK_ASSESSMENTS,
       column_mapping |->
         <<
           \* 'رقم\nالإجراء / التوصية ': 'الرقم'
           <<<<"reh", "qaf", "meem", "\n", "alef", "lam", "alef_hamza_below", "jeem",
               "reh", "alef", "hamza", " ", "/", " ", "alef", "lam", "teh", "waw",
               "sad", "yeh", "teh_marbuta", " ">>,
             <<"alef", "lam", "reh", "qaf", "meem">>>>,
           \* 'تاريخ التقييم': 'التاريخ'
           <<<<"teh", "alef", "reh", "yeh", "khah", " ", "alef", "lam", "teh", "qaf",
               "yeh", "yeh", "meem">>,
             COL_DATE>>,
           \* 'حالة التوصية': 'الحالة'
           <<<<"hah", "alef", "lam", "teh_marbuta", " ", "alef", "lam", "teh", "waw",
               "sad", "yeh", "teh_marbuta">>,
             COL_STATUS>>,
           \* 'الإدارة المسئولة عن تنفيذ التوصية': 'الإدارة'
           <<<<"alef", "lam", "alef_hamza_below", "dal", "alef", "reh", "teh_marbuta",
               " ", "alef", "lam", "meem", "seen", "yeh_hamza_above", "waw", "lam",
               "teh_marbuta", " ", "ain", "noon", " ", "teh", "noon", "feh", "yeh",
               "thal", " ", "alef", "lam", "teh", "waw", "sad", "yeh", "teh_marbuta">>,
             COL_DEPT>>,
           \* 'تصنيف النشاط': 'النشاط'
           <<<<"teh", "sad", "noon", "yeh", "feh", " ", "alef", "lam", "noon", "sheen",
               "alef", "tah">>,
             COL_ACTIVITY>>,
           \* 'نسب المخاطرة': 'نسبة_المخاطرة'
           <<<<"noon", "seen", "beh", " ", "alef", "lam", "meem", "khah", "alef", "tah",
               "reh", "teh_marbuta">>,
             COL_RISK_PCT>>,
           \* 'الإجراءات التصحيحية والتوصيات': 'التوصية_المقترحة'
           <<<<"alef", "lam", "alef_hamza_below", "jeem", "reh", "alef", "hamza",
               "alef", "teh", " ", "alef", "lam", "teh", "sad", "hah", "yeh", "hah",
               "yeh", "teh_marbuta", " ", "waw", "alef", "lam", "teh", "waw", "sad",
               "yeh", "alef", "teh">>,
             COL_RECOMMENDATION>>
         >>],
      \* line 59: 'متطلبات_SCIS.csv', 'inspections'
      [filename |-> <<"meem", "teh", "tah", "lam", "beh", "alef", "teh", "_", "S", "C",
                      "I", "S", ".", "c", "s", "v">>,
       unified_type |-> TYPE_INSPECTIONS,
       column_mapping |->
         <<
           \* 'الرقم ': 'الرقم'
           <<<<"alef", "lam", "reh", "qaf", "meem", " ">>,
             <<"alef", "lam", "reh", "qaf", "meem">>>>,
           \* 'تاريخ الملاحظة': 'التاريخ'
           <<<<"teh", "alef", "reh", "yeh", "khah", " ", "alef", "lam", "meem", "lam",
               "alef", "hah", "zah", "teh_marbuta">>,
             COL_DATE>>,
           \* 'تصنيف النشاط': 'النشاط'
           <<<<"teh", "sad", "noon", "yeh", "feh", " ", "alef", "lam", "noon", "sheen",
               "alef", "tah">>,
             COL_ACTIVITY>>,
           \* 'الحالة ': 'الحالة'
           <<<<"alef", "lam", "hah", "alef", "lam", "teh_marbuta", " ">>,
             COL_STATUS>>,
           \* 'الإدارة المسئولة عن تنفيذ التوصية': 'الإدارة'
           <<<<"alef", "lam", "alef_hamza_below", "dal", "alef", "reh", "teh_marbuta",
               " ", "alef", "lam", "meem", "seen", "yeh_hamza_above", "waw", "lam",
               "teh_marbuta", " ", "ain", "noon", " ", "teh", "noon", "feh", "yeh",
               "thal", " ", "alef", "lam", "teh", "waw", "sad", "yeh", "teh_marbuta">>,
             COL_DEPT>>
         >>]
    >>

ENCODING_OPTIONS == <<"utf-8", "utf-8-sig", "cp1256", "iso-8859-1">>

(***************************************************************************)
(* _clean_dataframe.  The result says whether the call raised and, if not, *)
(* the cleaned table.                                                      *)
(***************************************************************************)
EmptyTable == [cols |-> <<>>, dtypes |-> <<>>, rows |-> <<>>]

Returned(df) == [raised |-> FALSE, df |-> df]

Raised == [raised |-> TRUE, df |-> EmptyTable]

\* Lines 179-183: the labels cleaned, then the repeated ones suffixed.
NormalizeColumns(df) ==
    Bind(df, LAMBDA d : [d EXCEPT !.cols = HandleDuplicateColumns(CleanColumnNames(d.cols))])

\* Lines 189-190: the cells of the first row as the new labels.
PromotedLabels(first_row) ==
    Bind(first_row, LAMBDA row :
        [j \in 1..Len(row) |->
            IF NotNa(row[j]) THEN VStr(Strip(ToStr(row[j]))) ELSE VStr(ColPlaceholder(j - 1))])

\* Lines 187-193 without line 191: the promoted row stays among the data rows.
PromoteHeaderKeepRow(df) ==
    Bind(df, LAMBDA d :
        IF NRows(d) > 0 /\ IsPotentialHeaderRow(d.rows[1], d.cols)
        THEN [d EXCEPT !.cols = HandleDuplicateColumns(
                                    CleanColumnNames(PromotedLabels(d.rows[1])))]
        ELSE d)

\* Lines 187-193.
PromoteHeader(df) ==
    Bind(df, LAMBDA d :
        IF NRows(d) > 0 /\ IsPotentialHeaderRow(d.rows[1], d.cols)
        THEN [d EXCEPT !.rows = Tail(d.rows),
                       !.cols = HandleDuplicateColumns(
                                    CleanColumnNames(PromotedLabels(d.rows[1])))]
        ELSE d)

\* Lines 196-197: the labels through the Column Mapper when a mapping is given.
MapColumns(df, column_mapping) ==
    Bind(df, LAMBDA d :
        IF column_mapping # <<>>
        THEN [d EXCEPT !.cols = RenameColumns(d.cols, column_mapping)]
        ELSE d)

\* Lines 199-206 on the table with its labels mapped.
CanonicalizeValues(df) ==
    Bind(df, LAMBDA d2 :
        IF CoercionRaises(d2) THEN Raised
        ELSE Bind(CleanTextData(StandardizeDataTypes(d2)), LAMBDA d3 :
                 IF StatusRaises(d3) THEN Raised
                 ELSE Returned(StandardizeStatusValues(d3))))

CleanDataframe(df, column_mapping) ==
    Bind(df, LAMBDA d :
        IF IsEmpty(d) THEN Returned(EmptyTable)
        ELSE CanonicalizeValues(
                 MapColumns(PromoteHeader(NormalizeColumns(DropEmpty(d))), column_mapping)))

(***************************************************************************)
(* The database directory.  A file of the directory is a record            *)
(*   exists   : whether os.path.exists finds it                            *)
(*   readable : whether the reader opens and parses it                     *)
(*   sheets   : its tables, each [name, raw]; a CSV file has one table,    *)
(*              with the empty name                                        *)
(* and raw is [cols, rows], the header cells and the rows of cells the     *)
(* reader finds.                                                           *)
(***************************************************************************)
TAG_SOURCE_FILE ==
    <<"o", "r", "i", "g", "i", "n", "a", "l", "_", "s", "o", "u", "r", "c", "e", "_",
      "f", "i", "l", "e">>

TAG_SHEET_NAME ==
    <<"o", "r", "i", "g", "i", "n", "a", "l", "_", "s", "h", "e", "e", "t", "_", "n",
      "a", "m", "e">>

TAG_UNIFIED_TYPE ==
    <<"u", "n", "i", "f", "i", "e", "d", "_", "t", "y", "p", "e">>

\* df[label] = value for a scalar value: the columns labelled `label` are overwritten,
\* or a new last column is added.
SetColumn(table, label, value) ==
    Bind(table, LAMBDA df :
        IF HasColumn(df, label)
        THEN [df EXCEPT
                !.dtypes = [j \in 1..NCols(df) |->
                               IF df.cols[j] = label THEN "object" ELSE df.dtypes[j]],
                !.rows = [i \in 1..NRows(df) |->
                            [j \in 1..NCols(df) |->
                                IF df.cols[j] = label THEN value ELSE df.rows[i][j]]]]
        ELSE [cols   |-> Append(df.cols, label),
              dtypes |-> Append(df.dtypes, "object"),
              rows   |-> [i \in 1..NRows(df) |-> Append(df.rows[i], value)]])

SheetNames(file) == {file.sheets[i].name : i \in 1..Len(file.sheets)}

SheetNamed(file, name) ==
    file.sheets[CHOOSE i \in 1..Len(file.sheets) : file.sheets[i].name = name]

\* load_excel_data, the body of the loop over sheets_config from entry i on: the
\* sheets loaded, as [name, df] in the order of the config.  A sheet that is not in the
\* workbook, whose cleaning raises or that is empty after cleaning is left out.
RECURSIVE LoadSheetsFrom(_, _, _, _)
LoadSheetsFrom(file, filename, sheets_config, i) ==
    IF i > Len(sheets_config) THEN <<>>
    ELSE LET sheet_info == sheets_config[i]
             rest == LoadSheetsFrom(file, filename, sheets_config, i + 1)
         IN IF sheet_info.name \notin SheetNames(file) THEN rest
            ELSE Bind(CleanDataframe(ReadTable(SheetNamed(file, sheet_info.name).raw),
                                     sheet_info.column_mapping),
                      LAMBDA r :
                          IF r.raised \/ IsEmpty(r.df) THEN rest
                          ELSE LET d1 == SetColumn(r.df, TAG_SOURCE_FILE, VStr(filename))
                                   d2 == SetColumn(d1, TAG_SHEET_NAME, VStr(sheet_info.name))
                                   d3 == SetColumn(d2, TAG_UNIFIED_TYPE,
                                                   VStr(sheet_info.unified_type))
                               IN <<[name |-> sheet_info.name, df |-> d3]>> \o rest)

\* load_excel_data: a workbook that cannot be opened gives no sheets.
LoadExcelData(file, filename, sheets_config) ==
    IF ~file.readable THEN <<>> ELSE LoadSheetsFrom(file, filename, sheets_config, 1)

\* load_csv_data: no encoding of ENCODING_OPTIONS reads the file (df is None) and
\* the empty table is returned, or the table read is cleaned and tagged.  The call
\* of _clean_dataframe is outside any try: what it raises, load_csv_data raises.
LoadCsvData(file, filename, column_mapping, unified_type) ==
    IF ~file.readable THEN Returned(EmptyTable)
    ELSE Bind(CleanDataframe(ReadTable(file.sheets[1].raw), column_mapping), LAMBDA r :
             IF r.raised THEN Raised
             ELSE IF IsEmpty(r.df) THEN r
             ELSE Returned(SetColumn(SetColumn(r.df, TAG_SOURCE_FILE, VStr(filename)),
                                     TAG_UNIFIED_TYPE, VStr(unified_type))))

\* load_all_data, first loop: one entry per workbook that exists.
RECURSIVE LoadExcelFrom(_, _)
LoadExcelFrom(db, i) ==
    IF i > Len(excel_files) THEN <<>>
    ELSE LET filename == excel_files[i].filename
         IN (IF db[filename].exists
             THEN <<[filename |-> filename, is_excel |-> TRUE,
                     sheets |-> LoadExcelData(db[filename], filename,
                                              excel_files[i].sheets)]>>
             ELSE <<>>) \o LoadExcelFrom(db, i + 1)

\* What load_csv_data returns for the i-th entry of csv_files.
CsvResult(db, i) ==
    LoadCsvData(db[csv_files[i].filename], csv_files[i].filename,
                csv_files[i].column_mapping, csv_files[i].unified_type)

\* load_all_data, second loop: one entry per CSV file that exists and loads non-empty.
RECURSIVE LoadCsvFrom(_, _)
LoadCsvFrom(db, i) ==
    IF i > Len(csv_files) THEN <<>>
    ELSE LET filename == csv_files[i].filename
         IN (IF db[filename].exists
             THEN Bind(CsvResult(db, i).df, LAMBDA df :
                      IF ~IsEmpty(df)
                      THEN <<[filename |-> filename, is_excel |-> FALSE,
                              sheets |-> <<[name |-> <<>>, df |-> df]>>]>>
                      ELSE <<>>)
             ELSE <<>>) \o LoadCsvFrom(db, i + 1)

\* Whether load_all_data raises: some CSV file that exists raises while cleaned.
LoadRaises(db) ==
    \E i \in 1..Len(csv_files) : db[csv_files[i].filename].exists /\ CsvResult(db, i).raised

(***************************************************************************)
(* Schema Unifier: create_unified_dataset and _merge_similar_datasets.     *)
(* data_sources (a dict) is the sequence of its entries in insertion       *)
(* order, unified_data the sequence of [type, df] in insertion order.      *)
(***************************************************************************)
\* The tables of data_sources, each with the kind of its file, in the order the
\* loop of create_unified_dataset meets them.
RECURSIVE TablesOf(_)
TablesOf(sources) ==
    Bind(sources, LAMBDA ds :
        IF ds = <<>> THEN <<>>
        ELSE Bind(Head(ds), LAMBDA entry :
                 [i \in 1..Len(entry.sheets) |->
                     [is_excel |-> entry.is_excel, df |-> entry.sheets[i].df]]
                   \o TablesOf(Tail(ds))))

\* df['unified_type'].iloc[0]
UnifiedTypeOf(df) ==
    Bind(df, LAMBDA d : d.rows[1][CHOOSE j \in Positions(d, TAG_UNIFIED_TYPE) : TRUE].s)

\* df.drop(columns=labels, errors='ignore')
DropColumns(df, dropped) ==
    Bind2(df, dropped, LAMBDA d, ls :
        SelectColumns(d, SortedSeq({j \in 1..NCols(d) : d.cols[j] \notin ls})))

\* The tag columns dropped from a sheet of a workbook and from a CSV table.
TagsDropped(is_excel) ==
    IF is_excel THEN {TAG_UNIFIED_TYPE, TAG_SOURCE_FILE, TAG_SHEET_NAME}
    ELSE {TAG_UNIFIED_TYPE, TAG_SOURCE_FILE}

\* Whether the loop of create_unified_dataset takes the table.
IsTagged(df) == Bind(df, LAMBDA d : ~IsEmpty(d) /\ HasColumn(d, TAG_UNIFIED_TYPE))

\* Lines 368-370 and 374-376 with the list of a type assigned anew for every table
\* instead of appended to: the last table of the type alone.
CategorizedLast(data_sources, data_type) ==
    Bind(SelectSeq(TablesOf(data_sources),
                   LAMBDA t : IsTagged(t.df) /\ UnifiedTypeOf(t.df) = data_type),
         LAMBDA tables :
             [i \in 1..(IF tables = <<>> THEN 0 ELSE 1) |->
                 DropColumns(tables[Len(tables)].df, TagsDropped(tables[Len(tables)].is_excel))])

\* unified_data_categorized[data_type]: the tables of one type, tags dropped.
Categorized(data_sources, data_type) ==
    Bind(SelectSeq(TablesOf(data_sources),
                   LAMBDA t : IsTagged(t.df) /\ UnifiedTypeOf(t.df) = data_type),
         LAMBDA tables :
             [i \in 1..Len(tables) |->
                 DropColumns(tables[i].df, TagsDropped(tables[i].is_excel))])

\* The keys of unified_data_categorized in insertion order.
RECURSIVE TypesFrom(_, _)
TypesFrom(tables_in, seen_in) ==
    Bind2(tables_in, seen_in, LAMBDA tables, seen :
        IF tables = <<>> THEN <<>>
        ELSE LET df == Head(tables).df
             IN IF IsTagged(df) /\ UnifiedTypeOf(df) \notin seen
                THEN <<UnifiedTypeOf(df)>>
                       \o TypesFrom(Tail(tables), seen \cup {UnifiedTypeOf(df)})
                ELSE TypesFrom(Tail(tables), seen))

\* The labels every dataset carries: the columns an inner join keeps.
CommonColumns(datasets) ==
    Bind(datasets, LAMBDA ds :
        {l \in UNION {{ds[k].cols[j] : j \in 1..NCols(ds[k])} : k \in 1..Len(ds)} :
            \A k \in 1..Len(ds) : HasColumn(ds[k], l)})

\* all_columns of _merge_similar_datasets.
AllColumns(datasets) ==
    Bind(datasets, LAMBDA ds :
        UNION {{ds[k].cols[j] : j \in 1..NCols(ds[k])} : k \in 1..Len(ds)})

\* list(all_columns): a set iterates in no specified order, any order can come out.
Orderings(members) ==
    Bind(members, LAMBDA S :
        Bind(Cardinality(S), LAMBDA n :
            {o \in [1..n -> S] : \A i, j \in 1..n : o[i] = o[j] => i = j}))

\* df.reindex(columns=order, fill_value=0): a column the table lacks is an int64
\* column of zeros.
ReindexFillZero(table, columns) ==
    Bind2(table, columns, LAMBDA df, order :
        Bind([j \in 1..Len(order) |->
                 IF HasColumn(df, order[j]) THEN CHOOSE h \in Positions(df, order[j]) : TRUE
                 ELSE 0],
             LAMBDA at :
                 [cols   |-> order,
                  dtypes |-> [j \in 1..Len(order) |->
                                 IF at[j] # 0 THEN df.dtypes[at[j]] ELSE "int64"],
                  rows   |-> [i \in 1..NRows(df) |->
                                [j \in 1..Len(order) |->
                                    IF at[j] # 0 THEN df.rows[i][at[j]] ELSE VInt(0)]]]))

\* df.reindex(columns=order) of a table with distinct labels: a column the table
\* lacks is a float64 column of NaN.
Reindex(table, columns) ==
    Bind2(table, columns, LAMBDA df, order :
        Bind([j \in 1..Len(order) |->
                 IF HasColumn(df, order[j]) THEN CHOOSE h \in Positions(df, order[j]) : TRUE
                 ELSE 0],
             LAMBDA at :
                 [cols   |-> order,
                  dtypes |-> [j \in 1..Len(order) |->
                                 IF at[j] # 0 THEN df.dtypes[at[j]] ELSE "float64"],
                  rows   |-> [i \in 1..NRows(df) |->
                                [j \in 1..Len(order) |->
                                    IF at[j] # 0 THEN df.rows[i][at[j]] ELSE NULL]]]))

\* reindex raises on a table with a repeated label.
MergeRaises(datasets) ==
    Bind(datasets, LAMBDA ds :
        \E k \in 1..Len(ds) : \E j \in 1..NCols(ds[k]) : IsDuplicated(ds[k], ds[k].cols[j]))

RECURSIVE ConcatRows(_)
ConcatRows(frames) ==
    Bind(frames, LAMBDA fs : IF fs = <<>> THEN <<>> ELSE Head(fs).rows \o ConcatRows(Tail(fs)))

\* The dtype pd.concat gives column j of frames with the same labels: the common
\* dtype; else the common dtype of the frames where the column is not all null;
\* else float64 for numbers and object for a mix.  A column with a null is no int64.
ConcatDtype(frames, j) ==
    Bind3(frames,
          {frames[k].dtypes[j] : k \in 1..Len(frames)},
          {frames[k].dtypes[j] :
              k \in {h \in 1..Len(frames) :
                        \E i \in 1..NRows(frames[h]) : NotNa(frames[h].rows[i][j])}},
          LAMBDA fs, all, some :
              Bind(IF Cardinality(all) = 1 THEN CHOOSE d \in all : TRUE
                   ELSE IF Cardinality(some) = 1 THEN CHOOSE d \in some : TRUE
                   ELSE IF some # {} /\ some \subseteq {"int64", "float64"} THEN "float64"
                   ELSE "object",
                   LAMBDA one :
                       IF one = "int64" /\ \E k \in 1..Len(fs) : \E i \in 1..NRows(fs[k]) :
                                                 IsNa(fs[k].rows[i][j])
                       THEN "float64" ELSE one))

\* pd.concat(frames, ignore_index=True, sort=False) of frames with the same labels.
Concat(reindexed) ==
    Bind(reindexed, LAMBDA frames :
        Bind3(frames[1].cols,
              [j \in 1..Len(frames[1].cols) |-> ConcatDtype(frames, j)],
              ConcatRows(frames),
              LAMBDA cols, dts, rows :
                  [cols   |-> cols,
                   dtypes |-> dts,
                   rows   |-> [i \in 1..Len(rows) |->
                                 [j \in 1..Len(cols) |-> StoreAs(rows[i][j], dts[j])]]]))

\* _merge_similar_datasets for one order of list(all_columns).
MergeSimilarDatasets(datasets, order) ==
    Bind(datasets, LAMBDA ds : Concat([k \in 1..Len(ds) |-> Reindex(ds[k], order)]))

\* Lines 384-386: the date column of the merged table through pd.to_datetime.
EnsureDatetime(df) ==
    Bind(df, LAMBDA d :
        IF HasColumn(d, COL_DATE)
        THEN MapColumn(d, CHOOSE j \in Positions(d, COL_DATE) : TRUE,
                       ToDatetimeCell, "datetime64")
        ELSE d)

\* final_unified_data[data_type], one value for every order of list(all_columns).
UnifiedTables(datasets) ==
    Bind(datasets, LAMBDA ds :
        {EnsureDatetime(MergeSimilarDatasets(ds, order)) : order \in Orderings(AllColumns(ds))})

\* The values create_unified_dataset can return for the types from position i on.
RECURSIVE UnifiedFrom(_, _, _)
UnifiedFrom(data_sources, types, i) ==
    IF i > Len(types) THEN {<<>>}
    ELSE {<<[type |-> types[i], df |-> d]>> \o rest :
             d \in UnifiedTables(Categorized(data_sources, types[i])),
             rest \in UnifiedFrom(data_sources, types, i + 1)}

UnifiedTypes(data_sources) == TypesFrom(TablesOf(data_sources), {})

\* Whether create_unified_dataset raises: the merge of some type does.
UnifyRaises(data_sources) ==
    Bind(UnifiedTypes(data_sources), LAMBDA types :
        \E i \in 1..Len(types) : MergeRaises(Categorized(data_sources, types[i])))

\* create_unified_dataset: the values it can return.
UnifiedDatasets(data_sources) ==
    UnifiedFrom(data_sources, UnifiedTypes(data_sources), 1)

\* unified_data.get(data_type, pd.DataFrame())
UnifiedGet(unified_in, data_type) ==
    Bind(unified_in, LAMBDA unified :
        IF \E i \in 1..Len(unified) : unified[i].type = data_type
        THEN unified[CHOOSE i \in 1..Len(unified) : unified[i].type = data_type].df
        ELSE EmptyTable)

(***************************************************************************)
(* Analyzers: logic/dashboard_analyzer.py.  A percentage is kept as the    *)
(* exact fraction [num, den] (den > 0) of the division the code performs   *)
(* in floating point; comparisons cross-multiply.  A summary DataFrame is  *)
(* the sequence of its records; the display-only fields of a record (the   *)
(* coloured status text, the formatted trend, the quarterly trends and the *)
(* serialized detail rows) are left out.                                   *)
(***************************************************************************)
\* الأولوية  (the priority column; the sort option "by priority")
COL_PRIORITY ==
    <<"alef", "lam", "alef_hamza_above", "waw", "lam", "waw", "yeh", "teh_marbuta">>

\* مستوى المخاطر  (the risk level column; the sort option "by risk level")
COL_RISK_LEVEL ==
    <<"meem", "seen", "teh", "waw", "alef_maksura", " ", "alef", "lam", "meem", "khah",
    "alef", "tah", "reh">>

\* الاسم  (the sort option "by name")
SORT_NAME ==
    <<"alef", "lam", "alef", "seen", "meem">>
\* SECTORS, the fallback of line 20 (the analyzers only iterate over its set).
\* SECTORS (line 20)
SECTORS ==
    {<<"qaf", "tah", "alef", "ain", " ", "alef", "lam", "meem", "sheen", "alef", "reh",
     "yeh", "ain">>,
     <<"qaf", "tah", "alef", "ain", " ", "alef", "lam", "teh", "sheen", "ghain", "yeh",
     "lam">>,
     <<"qaf", "tah", "alef", "ain", " ", "alef", "lam", "khah", "dal", "meem", "alef",
     "teh">>,
     <<"qaf", "tah", "alef", "ain", " ", "alef", "lam", "teh", "khah", "sad", "yeh",
     "sad">>,
     <<"alef_hamza_above", "khah", "reh", "alef_maksura">>}
\* RISK_ACTIVITIES, the fallback of line 21.
RISK_ACTIVITIES ==
    {<<"alef", "lam", "alef_hamza_above", "meem", "alef", "kaf", "noon", " ", "alef",
     "lam", "meem", "ghain", "lam", "qaf", "teh_marbuta">>,
     <<"alef", "lam", "alef", "reh", "teh", "feh", "alef", "ain", "alef", "teh">>,
     <<"alef", "lam", "hah", "feh", "reh", "yeh", "alef", "teh">>,
     <<"alef", "lam", "kaf", "heh", "reh", "beh", "alef", "hamza">>}
\* The characters of the model in the order of their code points, by which Python
\* compares strings.

CodePointOrder ==
    <<"\t", "\n", " ", "%", "+", "-", ".", "/", "0", "1", "2", "3", "4", "5", "6", "7",
    "8", "9", ":", "A", "B", "C", "D", "E", "F", "G", "H", "I", "J", "K", "L", "M", "N",
    "O", "P", "Q", "R", "S", "T", "U", "V", "W", "X", "Y", "Z", "_", "a", "b", "c", "d",
    "e", "f", "g", "h", "i", "j", "k", "l", "m", "n", "o", "p", "q", "r", "s", "t", "u",
    "v", "w", "x", "y", "z", "hamza", "alef_hamza_above", "waw_hamza_above",
    "alef_hamza_below", "yeh_hamza_above", "alef", "beh", "teh_marbuta", "teh", "theh",
    "jeem", "hah", "khah", "dal", "thal", "reh", "zain", "seen", "sheen", "sad", "dad",
    "tah", "zah", "ain", "ghain", "feh", "qaf", "kaf", "lam", "meem", "noon", "heh",
    "waw", "alef_maksura", "yeh">>

CodePoint(c) == CHOOSE i \in 1..Len(CodePointOrder) : CodePointOrder[i] = c

\* a < b for Python strings.
StrLess(str, other) ==
    Bind2(str, other, LAMBDA a, b :
        \E i \in 1..Len(b) :
            /\ \A h \in 1..(i - 1) : h <= Len(a) /\ a[h] = b[h]
            /\ i > Len(a) \/ CodePoint(a[i]) < CodePoint(b[i]))

\* sorted(list(set(values))) for strings.
Sorted(values) ==
    Bind(values, LAMBDA S :
        [p \in 1..Cardinality(S) |->
            CHOOSE s \in S : Cardinality({t \in S : StrLess(t, s)}) = p - 1])

\* (count / total * 100) if total > 0 else 0
Percentage(count, total) ==
    IF total > 0 THEN [num |-> count * 100, den |-> total] ELSE [num |-> 0, den |-> 1]

\* a - b
Minus(a, b) == [num |-> a.num * b.den - b.num * a.den, den |-> a.den * b.den]

\* a < b
Less(a, b) == a.num * b.den < b.num * a.den

\* The fraction of a whole number.
Whole(n) == [num |-> n, den |-> 1]

\* What an analyzer call gives: it raised, or returned the records of its DataFrame.
Records(records) == [raised |-> FALSE, records |-> records]

CallRaised == [raised |-> TRUE, records |-> <<>>]

\* `key in filters` for a dict.
In(key, filters) == key \in DOMAIN filters.dict

\* The position of the column labelled `label` in a table whose labels are distinct.
At(df, label) == CHOOSE j \in Positions(df, label) : TRUE

\* series.astype(str).str.contains('|'.join(patterns), case=False, na=False), one
\* cell, for patterns without regular expression syntax.  astype(str) turns a null
\* cell into "nan" before na is looked at.
CellContains(v, patterns) ==
    Bind(Lower(ToStr(v)), LAMBDA text : \E p \in patterns : Contains(text, Lower(p)))

\* df[mask]: the rows that satisfy keep.
Keep(df, keep(_)) == Bind(df, LAMBDA d : [d EXCEPT !.rows = SelectSeq(d.rows, keep)])

\* The members of a list.
Members(list) == {list[i] : i \in 1..Len(list)}

\* 'الإدارة' if it is a column, else 'القطاع' if it is one, else None (<<>>).
ActualSectorCol(df) ==
    IF HasColumn(df, COL_DEPT) THEN COL_DEPT
    ELSE IF HasColumn(df, COL_SECTOR) THEN COL_SECTOR
    ELSE <<>>

\* _apply_common_filters with the column names its three callers pass (the
\* defaults) and search_col_names=None.  A date range is a list of days.
ApplyCommonFilters(table, filters) ==
    LET by_date(df) ==
            IF /\ In("date_range", filters) /\ Len(filters.dict.date_range) = 2
               /\ HasColumn(df, COL_DATE) /\ df.dtypes[At(df, COL_DATE)] = "datetime64"
            THEN Keep(df, LAMBDA r : /\ r[At(df, COL_DATE)].k = "ts"
                                     /\ r[At(df, COL_DATE)].n >= filters.dict.date_range[1]
                                     /\ r[At(df, COL_DATE)].n <= filters.dict.date_range[2])
            ELSE df
        by_sector(df) ==
            IF /\ In("sectors", filters) /\ filters.dict.sectors # <<>>
               /\ ActualSectorCol(df) # <<>>
            THEN Keep(df, LAMBDA r : /\ r[At(df, ActualSectorCol(df))].k = "str"
                                     /\ r[At(df, ActualSectorCol(df))].s
                                           \in Members(filters.dict.sectors))
            ELSE df
        by_status(df) ==
            IF /\ In("status", filters) /\ filters.dict.status # <<>>
               /\ ALL \notin Members(filters.dict.status)
               /\ HasColumn(df, COL_STATUS)
            THEN Keep(df, LAMBDA r : CellContains(r[At(df, COL_STATUS)],
                                                  Members(filters.dict.status)))
            ELSE df
        by_priority(df) ==
            IF /\ In("priority", filters) /\ filters.dict.priority # ALL
               /\ HasColumn(df, COL_PRIORITY)
            THEN Keep(df, LAMBDA r : CellContains(r[At(df, COL_PRIORITY)],
                                                  {filters.dict.priority}))
            ELSE df
        by_risk_level(df) ==
            IF /\ In("risk_level", filters) /\ filters.dict.risk_level # ALL
               /\ HasColumn(df, COL_RISK_LEVEL)
            THEN Keep(df, LAMBDA r : CellContains(r[At(df, COL_RISK_LEVEL)],
                                                  {filters.dict.risk_level}))
            ELSE df
        by_search(df) ==
            IF /\ In("search_query", filters) /\ filters.dict.search_query # <<>>
               /\ \E j \in 1..NCols(df) : df.dtypes[j] = "object"
            THEN Keep(df, LAMBDA r : \E j \in 1..NCols(df) :
                                         /\ df.dtypes[j] = "object"
                                         /\ CellContains(r[j], {filters.dict.search_query}))
            ELSE df
    IN Bind(table, LAMBDA d0 :
       Bind(by_date(d0), LAMBDA d1 :
       Bind(by_sector(d1), LAMBDA d2 :
       Bind(by_status(d2), LAMBDA d3 :
       Bind(by_priority(d3), LAMBDA d4 :
       Bind(by_risk_level(d4), by_search))))))

\* series.astype(str).str.contains('مغلق|مكتمل', case=False, na=False), one cell.
IsClosed(v) == CellContains(v, {ST_CLOSED, ST_COMPLETE})

\* Lines 160-195 with a falling trend at 90 % or more rated High instead of Medium.
ClassifyComplianceAlertHigh(compliance_percentage, trend) ==
    IF ~Less(compliance_percentage, Whole(90))
    THEN IF ~Less(trend, Whole(0))
         THEN [priority |-> LVL_LOW, recommendation |-> "excellent"]
         ELSE [priority |-> RISK_HIGH, recommendation |-> "excellent, alert"]
    ELSE IF ~Less(compliance_percentage, Whole(70))
    THEN IF Less(Whole(5), trend)
         THEN [priority |-> LVL_MEDIUM, recommendation |-> "good, improving"]
         ELSE IF Less(trend, Whole(-5))
         THEN [priority |-> RISK_HIGH, recommendation |-> "needs attention"]
         ELSE [priority |-> LVL_MEDIUM, recommendation |-> "good"]
    ELSE IF Less(Whole(5), trend)
         THEN [priority |-> RISK_HIGH, recommendation |-> "improve, progress"]
         ELSE [priority |-> LVL_URGENT, recommendation |-> "improve urgently"]

\* Lines 160-195 with the trend compared by >= 5 and <= -5 instead of > 5 and < -5.
ClassifyComplianceInclusive(compliance_percentage, trend) ==
    IF ~Less(compliance_percentage, Whole(90))
    THEN IF ~Less(trend, Whole(0))
         THEN [priority |-> LVL_LOW, recommendation |-> "excellent"]
         ELSE [priority |-> LVL_MEDIUM, recommendation |-> "excellent, alert"]
    ELSE IF ~Less(compliance_percentage, Whole(70))
    THEN IF ~Less(trend, Whole(5))
         THEN [priority |-> LVL_MEDIUM, recommendation |-> "good, improving"]
         ELSE IF ~Less(Whole(-5), trend)
         THEN [priority |-> RISK_HIGH, recommendation |-> "needs attention"]
         ELSE [priority |-> LVL_MEDIUM, recommendation |-> "good"]
    ELSE IF ~Less(trend, Whole(5))
         THEN [priority |-> RISK_HIGH, recommendation |-> "improve, progress"]
         ELSE [priority |-> LVL_URGENT, recommendation |-> "improve urgently"]

\* Lines 160-195: the priority and the recommendation of a sector.
\*   "excellent"           ممتاز - استمر في الأداء الجيد
\*   "excellent, alert"    ممتاز مع تنبيه - راقب الانخفاض الأخير
\*   "good, improving"     جيد مع تحسن - استمر في التطوير
\*   "needs attention"     يحتاج اهتمام - معدل الامتثال في انخفاض
\*   "good"                جيد - يحتاج تحسين طفيف
\*   "improve, progress"   يحتاج تحسين مع وجود تقدم إيجابي
\*   "improve urgently"    يحتاج تحسين عاجل وخطة عمل فورية
\* The priority High is 'عالي', the text of RISK_HIGH.
ClassifyCompliance(compliance_percentage, trend) ==
    IF ~Less(compliance_percentage, Whole(90))
    THEN IF ~Less(trend, Whole(0))
         THEN [priority |-> LVL_LOW, recommendation |-> "excellent"]
         ELSE [priority |-> LVL_MEDIUM, recommendation |-> "excellent, alert"]
    ELSE IF ~Less(compliance_percentage, Whole(70))
    THEN IF Less(Whole(5), trend)
         THEN [priority |-> LVL_MEDIUM, recommendation |-> "good, improving"]
         ELSE IF Less(trend, Whole(-5))
         THEN [priority |-> RISK_HIGH, recommendation |-> "needs attention"]
         ELSE [priority |-> LVL_MEDIUM, recommendation |-> "good"]
    ELSE IF Less(Whole(5), trend)
         THEN [priority |-> RISK_HIGH, recommendation |-> "improve, progress"]
         ELSE [priority |-> LVL_URGENT, recommendation |-> "improve urgently"]

\* The comparison of line 152 with > in place of >=.
IsRecentAfter(date, clock) == date.k = "ts" /\ date.n > clock.day - 90

\* row['التاريخ'] >= pd.Timestamp.now() - pd.Timedelta(days=90) for a date at
\* midnight: the clock is [day, midnight], midnight telling whether it reads 00:00
\* exactly.
IsRecent(date, clock) ==
    /\ date.k = "ts"
    /\ IF clock.midnight THEN date.n >= clock.day - 90 ELSE date.n > clock.day - 90

\* The body of the loop of get_compliance_summary (lines 137-221) for one sector on
\* the rows of the sector.
ComplianceRecord(df, sector, sector_rows, clock) ==
    Bind2(sector_rows,
          SelectSeq(sector_rows, LAMBDA r : IsRecent(r[At(df, COL_DATE)], clock)),
          LAMBDA rows, recent :
        LET closed(rs) == Len(SelectSeq(rs, LAMBDA r : IsClosed(r[At(df, COL_STATUS)])))
            compliance_percentage == Percentage(closed(rows), Len(rows))
            recent_compliance == Percentage(closed(recent), Len(recent))
            trend == Minus(recent_compliance, compliance_percentage)
            class == ClassifyCompliance(compliance_percentage, trend)
        IN [sector |-> sector,
            total_records |-> Len(rows),
            closed_records |-> closed(rows),
            open_records |-> Len(rows) - closed(rows),
            compliance_percentage |-> compliance_percentage,
            status |-> IF ~Less(compliance_percentage, Whole(50)) THEN ST_CLOSED
                       ELSE ST_OPEN,
            priority |-> class.priority,
            recommendation |-> class.recommendation,
            trend_value |-> trend,
            recent_compliance |-> recent_compliance])

\* The rows of df whose cell in the column `label` contains `name`, case ignored.
RowsOf(df, label, name) ==
    SelectSeq(df.rows, LAMBDA r : CellContains(r[At(df, label)], {name}))

\* df[label].dropna().unique(), as the set of the texts of the values.
UniqueValues(df, label) ==
    {ToStr(v) : v \in {c \in {df.rows[i][At(df, label)] : i \in 1..NRows(df)} : NotNa(c)}}

\* The records of the groups that have rows, in the sorted order of the names.
GroupRecords(names, rows_of(_), record(_, _)) ==
    Bind(Sorted(names), LAMBDA sorted :
        Bind([p \in 1..Len(sorted) |-> rows_of(sorted[p])], LAMBDA groups :
            Bind(SortedSeq({p \in 1..Len(sorted) : groups[p] # <<>>}), LAMBDA live :
                [q \in 1..Len(live) |-> record(sorted[live[q]], groups[live[q]])])))

\* get_compliance_summary(unified_data, filters) when the clock reads `clock`.
\* With filters=None the first `in` of _apply_common_filters raises TypeError.
ComplianceSummary(unified, filters, clock) ==
    Bind(UnifiedGet(unified, TYPE_INSPECTIONS), LAMBDA inspections_df :
        IF IsEmpty(inspections_df) THEN Records(<<>>)
        ELSE IF filters.none THEN CallRaised
        ELSE Bind(ApplyCommonFilters(inspections_df, filters), LAMBDA df :
            IF ~HasColumn(df, COL_STATUS) \/ ~HasColumn(df, COL_DATE) THEN Records(<<>>)
            ELSE IF df.dtypes[At(df, COL_DATE)] # "datetime64" THEN Records(<<>>)
            ELSE IF ActualSectorCol(df) = <<>> THEN Records(<<>>)
            ELSE LET chosen == IF In("sectors", filters) THEN Members(filters.dict.sectors)
                               ELSE UniqueValues(df, ActualSectorCol(df))
                 IN Records(GroupRecords(
                        IF chosen = {} THEN SECTORS ELSE chosen,
                        LAMBDA sector : RowsOf(df, ActualSectorCol(df), sector),
                        LAMBDA sector, rows : ComplianceRecord(df, sector, rows, clock)))))

\* categorize_risk_by_percentage (lines 265-272): float(str(x).replace('%', '')) of
\* a cell, in hundredths, against 0.7 and 0.4.  float('nan') passes no comparison
\* and ends in the else branch; text that is no number gives 'غير محدد'.
CategorizeRiskByPercentage(v) ==
    LET level(val) == IF val >= 70 THEN RISK_HIGH
                      ELSE IF val >= 40 THEN LVL_MEDIUM
                      ELSE LVL_LOW
        text == SelectSeq(v.s, LAMBDA c : c # "%")
    IN CASE v.k = "null" -> LVL_LOW
         [] v.k = "int" -> level(v.n * 100)
         [] v.k = "float" -> level(v.n)
         [] v.k = "ts" -> LVL_UNDETERMINED
         [] v.k = "str" /\ IsDecimalText(text) -> level(DecimalHundredths(text))
         [] v.k = "str" /\ ~IsDecimalText(text) /\ IsNumberlessText(text) -> LVL_UNDETERMINED

\* Lines 261-276: the risk level column, derived when the table has none.
WithRiskLevel(table) ==
    Bind(table, LAMBDA df :
        IF HasColumn(df, COL_CLASS) THEN df
        ELSE IF HasColumn(df, COL_RISK_PCT)
        THEN [cols   |-> Append(df.cols, COL_CLASS),
              dtypes |-> Append(df.dtypes, "object"),
              rows   |-> [i \in 1..NRows(df) |->
                            Append(df.rows[i],
                                   VStr(CategorizeRiskByPercentage(
                                            df.rows[i][At(df, COL_RISK_PCT)])))]]
        ELSE SetColumn(df, COL_CLASS, VStr(LVL_UNDETERMINED)))

\* Lines 299-311 with the thresholds compared by > instead of >=.
ClassifyRiskAbove(risk_percentage) ==
    IF Less(Whole(70), risk_percentage)
    THEN [risk_level |-> <<"red_circle", " ">> \o RISK_HIGH, priority |-> 1,
          recommendation |-> "urgent review"]
    ELSE IF Less(Whole(40), risk_percentage)
    THEN [risk_level |-> <<"yellow_circle", " ">> \o LVL_MEDIUM, priority |-> 2,
          recommendation |-> "intensified watch"]
    ELSE [risk_level |-> <<"green_circle", " ">> \o LVL_LOW, priority |-> 3,
          recommendation |-> "periodic watch"]

\* Lines 299-311: the level, the priority and the recommendation of an activity.
\*   "urgent review"        مراجعة عاجلة
\*   "intensified watch"    مراقبة دورية مكثفة
\*   "periodic watch"       مراقبة دورية
ClassifyRisk(risk_percentage) ==
    IF ~Less(risk_percentage, Whole(70))
    THEN [risk_level |-> <<"red_circle", " ">> \o RISK_HIGH, priority |-> 1,
          recommendation |-> "urgent review"]
    ELSE IF ~Less(risk_percentage, Whole(40))
    THEN [risk_level |-> <<"yellow_circle", " ">> \o LVL_MEDIUM, priority |-> 2,
          recommendation |-> "intensified watch"]
    ELSE [risk_level |-> <<"green_circle", " ">> \o LVL_LOW, priority |-> 3,
          recommendation |-> "periodic watch"]

\* The body of the loop of get_risk_activities_summary (lines 283-323) for one
\* activity on the rows of the activity.
RiskRecord(df, activity, activity_rows) ==
    Bind2(activity_rows,
          SelectSeq(activity_rows,
                    LAMBDA r : CellContains(r[At(df, COL_CLASS)], {RISK_HIGH, RISK_ELEVATED})),
          LAMBDA rows, high :
        Bind(Percentage(Len(high), Len(rows)), LAMBDA risk_percentage :
            [activity |-> activity,
             total_assessments |-> Len(rows),
             high_risk_count |-> Len(high),
             risk_level |-> ClassifyRisk(risk_percentage).risk_level,
             risk_percentage |-> risk_percentage,
             priority |-> ClassifyRisk(risk_percentage).priority,
             recommendation |-> ClassifyRisk(risk_percentage).recommendation]))

\* DataFrame.sort_values on a key given as a number per record: ascending, records
\* with equal keys in their former order.
SortValues(frame, key(_)) ==
    Bind(frame, LAMBDA rs :
        Bind([i \in 1..Len(rs) |->
                 1 + Cardinality({j \in 1..Len(rs) :
                                     \/ key(rs[j]) < key(rs[i])
                                     \/ key(rs[j]) = key(rs[i]) /\ j < i})],
             LAMBDA place : [p \in 1..Len(rs) |-> rs[CHOOSE i \in 1..Len(rs) : place[i] = p]]))

\* Lines 327-334: the recommendation filter.  A DataFrame made of no record has no
\* column, and selecting by 'الأولوية' raises KeyError.
FilterByRecommendation(result, filters) ==
    Bind(result, LAMBDA res :
        IF ~(filters.dict # <<>> /\ In("recommendation_filter", filters)) THEN res
        ELSE IF filters.dict.recommendation_filter
                   \notin {LVL_URGENT, LVL_MEDIUM, LVL_LOW} THEN res
        ELSE IF ~res.has_columns THEN [res EXCEPT !.raised = TRUE]
        ELSE [res EXCEPT !.records =
                 SelectSeq(res.records, LAMBDA r :
                     r.priority = CASE filters.dict.recommendation_filter = LVL_URGENT -> 1
                                    [] filters.dict.recommendation_filter = LVL_MEDIUM -> 2
                                    [] filters.dict.recommendation_filter = LVL_LOW -> 3)])

\* Lines 337-346: the sort.  sort_values on a DataFrame without the column raises
\* KeyError.
SortActivities(result, filters) ==
    Bind(result, LAMBDA res :
        IF res.raised \/ ~(filters.dict # <<>> /\ In("activity_sort", filters)) THEN res
        ELSE IF filters.dict.activity_sort
                   \notin {COL_PRIORITY, SORT_NAME, COL_RISK_LEVEL} THEN res
        ELSE IF ~res.has_columns THEN [res EXCEPT !.raised = TRUE]
        ELSE [res EXCEPT !.records =
                 CASE filters.dict.activity_sort = COL_PRIORITY ->
                        SortValues(res.records, LAMBDA r : r.priority)
                   [] filters.dict.activity_sort = SORT_NAME ->
                        SortValues(res.records, LAMBDA r :
                            Cardinality({j \in 1..Len(res.records) :
                                StrLess(res.records[j].activity, r.activity)}))
                   [] filters.dict.activity_sort = COL_RISK_LEVEL ->
                        SortValues(res.records, LAMBDA r :
                            Cardinality({j \in 1..Len(res.records) :
                                Less(r.risk_percentage,
                                     res.records[j].risk_percentage)}))])

\* get_risk_activities_summary(unified_data, filters).
RiskActivitiesSummary(unified, filters) ==
    Bind(UnifiedGet(unified, TYPE_RISK_ASSESSMENTS), LAMBDA risk_assessments_df :
        IF IsEmpty(risk_assessments_df) THEN Records(<<>>)
        ELSE IF filters.none THEN CallRaised
        ELSE Bind(ApplyCommonFilters(risk_assessments_df, filters), LAMBDA filtered :
            IF ~HasColumn(filtered, COL_ACTIVITY) THEN Records(<<>>)
            ELSE Bind(WithRiskLevel(filtered), LAMBDA df :
                Bind(GroupRecords(
                         IF UniqueValues(df, COL_ACTIVITY) = {} THEN RISK_ACTIVITIES
                         ELSE UniqueValues(df, COL_ACTIVITY),
                         LAMBDA activity : RowsOf(df, COL_ACTIVITY, activity),
                         LAMBDA activity, rows : RiskRecord(df, activity, rows)),
                     LAMBDA risk_data_list :
                         Bind(SortActivities(
                                  FilterByRecommendation(
                                      [raised |-> FALSE, records |-> risk_data_list,
                                       has_columns |-> risk_data_list # <<>>],
                                      filters),
                                  filters),
                              LAMBDA res : IF res.raised THEN CallRaised
                                           ELSE Records(res.records))))))

\* The body of the loop of get_incidents_summary (lines 393-415) for one sector on
\* the rows of the sector (the table has a status column).
IncidentRecord(df, sector, sector_rows) ==
    Bind(sector_rows, LAMBDA rows :
        LET recommendations_count ==
                IF HasColumn(df, COL_RECOMMENDATION)
                THEN Len(SelectSeq(rows, LAMBDA r : NotNa(r[At(df, COL_RECOMMENDATION)])))
                ELSE Len(rows)
            closed_count == Len(SelectSeq(rows, LAMBDA r : IsClosed(r[At(df, COL_STATUS)])))
        IN [sector |-> sector,
            total_incidents |-> Len(rows),
            recommendations_count |-> recommendations_count,
            closed |-> closed_count,
            open |-> recommendations_count - closed_count,
            closure_percentage |-> Percentage(closed_count, recommendations_count)])

\* get_incidents_summary(unified_data, filters).  Without a status column the first
\* sector that has rows raises KeyError.
IncidentsSummary(unified, filters) ==
    Bind(UnifiedGet(unified, TYPE_INCIDENTS), LAMBDA incidents_df :
        IF IsEmpty(incidents_df) THEN Records(<<>>)
        ELSE IF filters.none THEN CallRaised
        ELSE Bind(ApplyCommonFilters(incidents_df, filters), LAMBDA df :
            IF ActualSectorCol(df) = <<>> THEN Records(<<>>)
            ELSE LET found == UniqueValues(df, ActualSectorCol(df))
                     names == IF found = {} THEN SECTORS ELSE found
                 IN IF ~HasColumn(df, COL_STATUS)
                    THEN IF \E sector \in names : RowsOf(df, ActualSectorCol(df), sector) # <<>>
                         THEN CallRaised
                         ELSE Records(<<>>)
                    ELSE Records(GroupRecords(
                             names,
                             LAMBDA sector : RowsOf(df, ActualSectorCol(df), sector),
                             LAMBDA sector, rows : IncidentRecord(df, sector, rows)))))

(***************************************************************************)
(* State.                                                                  *)
(*   database     : the files of the database directory, by file name      *)
(*   data_sources : self.data_sources, what load_all_data last stored      *)
(*   unified_data : self.unified_data, what create_unified_dataset stored  *)
(*   pc           : how far the run has come: "start", "loaded",           *)
(*                  "unified", "analyzed", or "failed" once load or unify  *)
(*                  has raised                                             *)
(*   now          : the clock the analyzers read, [day, midnight]          *)
(*   summary      : the last analyzer call and what it returned            *)
(*   labels       : a run of the Column Normalizer on a list of labels     *)
(***************************************************************************)
VARIABLES database, data_sources, unified_data, pc, now, summary, labels

vars == <<database, data_sources, unified_data, pc, now, summary, labels>>

FileNames ==
    {excel_files[i].filename : i \in 1..Len(excel_files)}
      \cup {csv_files[i].filename : i \in 1..Len(csv_files)}

MissingFile == [exists |-> FALSE, readable |-> FALSE, sheets |-> <<>>]

NoDatabase == [f \in FileNames |-> MissingFile]

NoCall == [analyzer |-> "none", raised |-> FALSE, records |-> <<>>]

NoLabels == [step |-> "none", raw |-> <<>>, cleaned |-> <<>>, new_cols |-> <<>>]

Epoch == [day |-> 0, midnight |-> TRUE]

(***************************************************************************)
(* The Column Normalizer on its own: lines 179-183 of _clean_dataframe on  *)
(* a list of labels.  The labels are cells, as a reader or the header      *)
(* promotion hands them over; a list may repeat a label (the cells of a    *)
(* promoted row) and may hold null.                                        *)
(***************************************************************************)
LabelPool ==
    {VStr(<<"a", " ", "b">>), VStr(<<"a", "_", "b">>), VStr(<<"a", "_", "b", "_", "1">>),
     VStr(<<"c", "o", "l", "_", "1">>), NULL}

RawLabelLists == UNION {[1..n -> LabelPool] : n \in 0..MaxCols}

InitColumns ==
    /\ labels \in {[step |-> "raw", raw |-> r, cleaned |-> <<>>, new_cols |-> <<>>] :
                      r \in RawLabelLists}
    /\ database = NoDatabase
    /\ data_sources = <<>>
    /\ unified_data = <<>>
    /\ pc = "idle"
    /\ now = Epoch
    /\ summary = NoCall

\* df.columns = self._clean_column_names(df.columns)
CleanColumns ==
    /\ labels.step = "raw"
    /\ labels' = [labels EXCEPT !.step = "cleaned", !.cleaned = CleanColumnNames(labels.raw)]
    /\ UNCHANGED <<database, data_sources, unified_data, pc, now, summary>>

\* df = self._handle_duplicate_columns(df)
DedupColumns ==
    /\ labels.step = "cleaned"
    /\ labels' = [labels EXCEPT !.step = "deduped",
                                !.new_cols = HandleDuplicateColumns(labels.cleaned)]
    /\ UNCHANGED <<database, data_sources, unified_data, pc, now, summary>>

NextColumns == CleanColumns \/ DedupColumns

SpecColumns == InitColumns /\ [][NextColumns]_vars

\* The number of earlier positions of cols that hold the label at position j.
EarlierOccurrences(cols, j) == Cardinality({i \in 1..(j - 1) : cols[i] = cols[j]})

\* C3: once the cleaned labels have been through _handle_duplicate_columns, the
\* output labels are pairwise distinct, the first occurrence of each label is
\* left unsuffixed and its k-th later occurrence carries the suffix _k.
C3_DedupDistinctAndSuffixed ==
    labels.step = "deduped" =>
        /\ \A i, j \in 1..Len(labels.new_cols) :
              i # j => labels.new_cols[i] # labels.new_cols[j]
        /\ \A j \in 1..Len(labels.new_cols) :
              LET k == EarlierOccurrences(labels.cleaned, j)
              IN labels.new_cols[j] =
                    IF k = 0 THEN labels.cleaned[j]
                    ELSE labels.cleaned[j] \o <<"_">> \o NatToStr(k)

(***************************************************************************)
(* The pipeline: load_all_data, then create_unified_dataset on what it     *)
(* returned (main, lines 505-518).                                         *)
(***************************************************************************)
\* load_all_data.  When a CSV file raises while cleaned the call raises before
\* self.data_sources is assigned.
LoadAllData ==
    /\ pc = "start"
    /\ IF LoadRaises(database)
       THEN pc' = "failed" /\ UNCHANGED data_sources
       ELSE /\ pc' = "loaded"
            /\ data_sources' = LoadExcelFrom(database, 1) \o LoadCsvFrom(database, 1)
    /\ UNCHANGED <<database, unified_data, now, summary, labels>>

\* create_unified_dataset(self.data_sources).  When a merge raises the call raises
\* before self.unified_data is assigned.
CreateUnifiedDataset ==
    /\ pc = "loaded"
    /\ IF UnifyRaises(data_sources)
       THEN pc' = "failed" /\ UNCHANGED unified_data
       ELSE /\ pc' = "unified"
            /\ \E unified \in UnifiedDatasets(data_sources) : unified_data' = unified
    /\ UNCHANGED <<database, data_sources, now, summary, labels>>

(***************************************************************************)
(* Input files.  A plain table has its labels in the header line.  A       *)
(* titled table has a title in the header line, which the reader takes for *)
(* the labels ("Report", "Unnamed: 1", ...), and its labels in the first   *)
(* row; its cells are text, as a reader finds them under a text row.       *)
(***************************************************************************)
\* The i-th key of a column mapping as a header cell: the label the config expects
\* the source to carry.
RawLabel(column_mapping, i) == VStr(column_mapping[i][1])

\* The rows over per-column cell domains, 1 to MaxRows of them.
RowsOver(domains) ==
    LET cells == UNION {domains[j] : j \in 1..Len(domains)}
        row   == {r \in [1..Len(domains) -> cells] : \A j \in 1..Len(domains) : r[j] \in domains[j]}
    IN UNION {[1..n -> row] : n \in 1..MaxRows}

PlainTables(header, domains) == {[cols |-> header, rows |-> rows] : rows \in RowsOver(domains)}

TitleLabels(n) ==
    [j \in 1..n |-> IF j = 1 THEN VStr(<<"R", "e", "p", "o", "r", "t">>)
                    ELSE VStr(Unnamed \o <<":", " ">> \o NatToStr(j - 1))]

TitledTables(header, domains) ==
    {[cols |-> TitleLabels(Len(header)), rows |-> <<header>> \o rows] :
        rows \in RowsOver(domains)}

Workbook(sheets) == [exists |-> TRUE, readable |-> TRUE, sheets |-> sheets]

CsvFile(raw) == [exists |-> TRUE, readable |-> TRUE, sheets |-> <<[name |-> <<>>, raw |-> raw]>>]

(***************************************************************************)
(* The pipeline on two inspections sources with different columns: the     *)
(* inspections sheet of the workbook as a plain table with a number, a     *)
(* date and a status column, and the inspections CSV file as a titled      *)
(* table with a status and a department column, with or without a number   *)
(* column.  Either file may be missing.                                    *)
(***************************************************************************)
InspectionsSheet == excel_files[1].sheets[1]

InspectionsCsv == csv_files[1]

\* Status cells of the sources: a key of the synonym table, a spelling the table
\* does not hold, and an empty cell.
StatusInputs ==
    {VStr(<<"C", "l", "o", "s", "e", "d">>),
     VStr(<<"C", "o", "m", "p", "l", "e", "t", "e", "d">>),
     NULL}

Ops == <<"O", "p", "s">>

\* The number, date and status labels of line 32.
SheetInputs ==
    PlainTables(<<RawLabel(InspectionsSheet.column_mapping, 1),
                  RawLabel(InspectionsSheet.column_mapping, 2),
                  RawLabel(InspectionsSheet.column_mapping, 4)>>,
                <<{VInt(7)}, {VTs(DaysFromCivil(2024, 1, 5))}, StatusInputs>>)

\* The status and department labels of line 54, without and with the number label.
CsvInputs ==
    TitledTables(<<RawLabel(InspectionsCsv.column_mapping, 4),
                   RawLabel(InspectionsCsv.column_mapping, 5)>>,
                 <<StatusInputs, {VStr(Ops)}>>)
      \cup TitledTables(<<RawLabel(InspectionsCsv.column_mapping, 1),
                          RawLabel(InspectionsCsv.column_mapping, 4),
                          RawLabel(InspectionsCsv.column_mapping, 5)>>,
                        <<{VStr(<<"8">>)}, StatusInputs, {VStr(Ops)}>>)

InitUnify ==
    /\ \E sheet \in {<<>>} \cup {<<[name |-> InspectionsSheet.name, raw |-> t]>> : t \in SheetInputs},
          csv \in {MissingFile} \cup {CsvFile(t) : t \in CsvInputs} :
          database = [NoDatabase EXCEPT
                        ![excel_files[1].filename] =
                            IF sheet = <<>> THEN MissingFile ELSE Workbook(sheet),
                        ![InspectionsCsv.filename] = csv]
    /\ data_sources = <<>>
    /\ unified_data = <<>>
    /\ pc = "start"
    /\ now = Epoch
    /\ summary = NoCall
    /\ labels = NoLabels

NextUnify == LoadAllData \/ CreateUnifiedDataset

SpecUnify == InitUnify /\ [][NextUnify]_vars

\* The data columns of a loaded table: its labels other than the tags.
DataColumns(t) == {t.df.cols[j] : j \in 1..NCols(t.df)} \ TagsDropped(t.is_excel)

\* The loaded tables the unifier takes.
TaggedTables == SelectSeq(TablesOf(data_sources), LAMBDA t : IsTagged(t.df))

\* C1: once create_unified_dataset has returned, every data column of every loaded
\* table is a column of the unified dataset of the table's semantic type.
C1_NoColumnLoss ==
    pc = "unified" =>
        \A k \in 1..Len(TaggedTables) :
            \A t \in {TaggedTables[k]} :
                \A label \in DataColumns(t) :
                    HasColumn(UnifiedGet(unified_data, UnifiedTypeOf(t.df)), label)

\* Two loaded tables of one type with different data columns have been unified.
C1_Witness ==
    /\ pc = "unified"
    /\ \E h, k \in 1..Len(TaggedTables) :
          \E t \in {TaggedTables[h]}, u \in {TaggedTables[k]} :
              /\ UnifiedTypeOf(t.df) = UnifiedTypeOf(u.df)
              /\ DataColumns(t) \ DataColumns(u) # {}
              /\ DataColumns(u) \ DataColumns(t) # {}
              /\ \A label \in DataColumns(t) \cup DataColumns(u) :
                    HasColumn(UnifiedGet(unified_data, UnifiedTypeOf(t.df)), label)

\* The number of rows pd.concat puts before those of the k-th dataset.
RECURSIVE RowsBefore(_, _)
RowsBefore(datasets, k) ==
    IF k = 1 THEN 0 ELSE RowsBefore(datasets, k - 1) + NRows(datasets[k - 1])

\* Equality of two cells as values: an integer and the float of the same number are
\* the same value (7 == 7.0).
SameValue(a, b) == StoreAs(a, "float64") = StoreAs(b, "float64")

\* Whether the rows that pd.concat took from the k-th dataset hold, in the column of
\* U at position j, the dataset's values, or null when the dataset lacks the column.
RowsKept(U, ds, k, j) ==
    \A i \in 1..NRows(ds[k]) :
        \A cell \in {U.rows[RowsBefore(ds, k) + i][j]} :
            IF HasColumn(ds[k], U.cols[j])
            THEN SameValue(cell, ds[k].rows[i][CHOOSE h \in Positions(ds[k], U.cols[j]) : TRUE])
            ELSE IsNa(cell)

\* C2: in every unified dataset the rows are those of the tables of its type, in
\* order; a row keeps its table's value in each column the table had and holds null
\* in every column of the union the table lacked.
C2_RowsKeepValuesNullPadded ==
    pc = "unified" =>
        \A u \in 1..Len(unified_data) :
            \A U \in {unified_data[u].df}, ds \in {Categorized(data_sources, unified_data[u].type)} :
                /\ NRows(U) = RowsBefore(ds, Len(ds) + 1)
                /\ \A k \in 1..Len(ds) : \A j \in 1..NCols(U) : RowsKept(U, ds, k, j)

\* A unified dataset of two tables where a row of the first holds null in a column
\* only the second table has, and keeps a non-null value of its own table.
C2_Witness ==
    /\ pc = "unified"
    /\ \E u \in 1..Len(unified_data) :
          \E U \in {unified_data[u].df}, ds \in {Categorized(data_sources, unified_data[u].type)} :
              /\ Len(ds) = 2
              /\ \E j, h \in 1..NCols(U) :
                    /\ ~HasColumn(ds[1], U.cols[j]) /\ IsNa(U.rows[1][j])
                    /\ HasColumn(ds[1], U.cols[h]) /\ NotNa(U.rows[1][h])
                    /\ RowsKept(U, ds, 1, j) /\ RowsKept(U, ds, 1, h)

\* The non-null cells of the status column of the unified datasets.
UnifiedStatusValues ==
    UNION {{v \in {U.rows[i][j] : i \in 1..NRows(U),
                                   j \in Positions(U, COL_STATUS)} : NotNa(v)} :
              U \in {unified_data[u].df : u \in 1..Len(unified_data)}}

CanonicalStatus == {VStr(ST_OPEN), VStr(ST_CLOSED)}

\* C4 as stated: after load and unify every non-null value of the status column of
\* every unified dataset is one of the two canonical values.
C4_OnlyCanonicalStatus ==
    pc = "unified" => UnifiedStatusValues \subseteq CanonicalStatus

\* C4 as the code has it: after load and unify every non-null value of the status
\* column of every unified dataset is canonical or is no key of the synonym table
\* (a value the table does not hold passes through unchanged).
C4_CanonicalOrUnrecognized ==
    pc = "unified" =>
        \A v \in UnifiedStatusValues :
            v \in CanonicalStatus \/ v.k # "str" \/ v.s \notin StatusKeys

\* A unified status column holding a canonical value and a value passed through.
C4_Witness ==
    /\ pc = "unified"
    /\ VStr(ST_CLOSED) \in UnifiedStatusValues
    /\ UnifiedStatusValues \ CanonicalStatus # {}


(***************************************************************************)
(* The analyzers on what the pipeline unified (app.py, lines 273-303, and  *)
(* the pages that call the analyzers with the filters of the session).     *)
(* A run ends with one analyzer call: the analyzers work on copies and     *)
(* leave unified_data as it is, so a call does not depend on the calls     *)
(* before it.  Each source is a titled CSV table.                          *)
(***************************************************************************)
IncidentsCsv == csv_files[2]

RiskCsv == csv_files[3]

HR == <<"H", "R">>

Fix == <<"F", "i", "x">>

Dig == <<"D", "i", "g">>

Weld == <<"W", "e", "l", "d">>

\* The dates of the inspections: one more than 90 days before the other.
OldDay == DaysFromCivil(2024, 1, 5)

NewDay == DaysFromCivil(2024, 6, 1)

\* The clock 90 days after NewDay, at midnight (NewDay is recent) and later that
\* day (no date is).
Clock == {[day |-> NewDay + 90, midnight |-> m] : m \in BOOLEAN}

\* The date, status and department labels of line 54; the statuses are keys of the
\* synonym table, a canonical value and a spelling the table does not hold.
InspectionsInputs ==
    TitledTables(<<RawLabel(InspectionsCsv.column_mapping, 2),
                   RawLabel(InspectionsCsv.column_mapping, 4),
                   RawLabel(InspectionsCsv.column_mapping, 5)>>,
                 <<{VStr(DateText(OldDay)), VStr(DateText(NewDay))},
                   {VStr(<<"C", "l", "o", "s", "e", "d">>), VStr(ST_CLOSED),
                    VStr(<<"C", "o", "m", "p", "l", "e", "t", "e", "d">>),
                    VStr(<<"O", "p", "e", "n">>)},
                   {VStr(Ops), VStr(HR)}>>)

\* The status and department labels of line 55, with and without a recommendation
\* column.
IncidentsInputs ==
    TitledTables(<<RawLabel(IncidentsCsv.column_mapping, 3),
                   RawLabel(IncidentsCsv.column_mapping, 4),
                   VStr(COL_RECOMMENDATION)>>,
                 <<{VStr(<<"C", "l", "o", "s", "e", "d">>), VStr(<<"O", "p", "e", "n">>)},
                   {VStr(Ops), VStr(HR)},
                   {VStr(Fix), NULL}>>)
      \cup TitledTables(<<RawLabel(IncidentsCsv.column_mapping, 3),
                          RawLabel(IncidentsCsv.column_mapping, 4)>>,
                        <<{VStr(<<"C", "l", "o", "s", "e", "d">>),
                           VStr(<<"O", "p", "e", "n">>)},
                          {VStr(Ops), VStr(HR)}>>)

\* The activity label of line 58 with its risk percentage label, or with a risk
\* level column under its canonical name.
RiskInputs ==
    TitledTables(<<RawLabel(RiskCsv.column_mapping, 5), RawLabel(RiskCsv.column_mapping, 6)>>,
                 <<{VStr(Dig), VStr(Weld)},
                   {VStr(<<"0", ".", "8">>), VStr(<<"0", ".", "5">>)}>>)
      \cup TitledTables(<<RawLabel(RiskCsv.column_mapping, 5), VStr(COL_CLASS)>>,
                        <<{VStr(Dig), VStr(Weld)}, {VStr(RISK_ELEVATED), VStr(LVL_LOW)}>>)

\* The filters of the calls: none, the empty dict, one sector, the closed status,
\* and the urgent activities sorted by risk.
FilterInputs ==
    {[none |-> TRUE, dict |-> <<>>],
     [none |-> FALSE, dict |-> <<>>],
     [none |-> FALSE, dict |-> [sectors |-> <<Ops>>]],
     [none |-> FALSE, dict |-> [status |-> <<ST_CLOSED>>]],
     [none |-> FALSE, dict |-> [recommendation_filter |-> LVL_URGENT,
                                activity_sort |-> COL_RISK_LEVEL]]}

\* get_compliance_summary(self.unified_data, filters); it reads the clock.
GetComplianceSummary ==
    /\ pc = "unified"
    /\ \E filters \in FilterInputs, clock \in Clock :
          /\ now' = clock
          /\ \E res \in {ComplianceSummary(unified_data, filters, clock)} :
                summary' = [analyzer |-> "compliance", filters |-> filters,
                            raised |-> res.raised, records |-> res.records]
    /\ pc' = "analyzed"
    /\ UNCHANGED <<database, data_sources, unified_data, labels>>

\* get_risk_activities_summary(self.unified_data, filters)
GetRiskActivitiesSummary ==
    /\ pc = "unified"
    /\ \E filters \in FilterInputs :
          \E res \in {RiskActivitiesSummary(unified_data, filters)} :
              summary' = [analyzer |-> "risk", filters |-> filters,
                          raised |-> res.raised, records |-> res.records]
    /\ pc' = "analyzed"
    /\ UNCHANGED <<database, data_sources, unified_data, now, labels>>

\* get_incidents_summary(self.unified_data, filters)
GetIncidentsSummary ==
    /\ pc = "unified"
    /\ \E filters \in FilterInputs :
          \E res \in {IncidentsSummary(unified_data, filters)} :
              summary' = [analyzer |-> "incidents", filters |-> filters,
                          raised |-> res.raised, records |-> res.records]
    /\ pc' = "analyzed"
    /\ UNCHANGED <<database, data_sources, unified_data, now, labels>>

InitAnalyze ==
    /\ \E source \in ({InspectionsCsv.filename} \X InspectionsInputs)
                       \cup ({IncidentsCsv.filename} \X IncidentsInputs)
                       \cup ({RiskCsv.filename} \X RiskInputs) :
          database = [NoDatabase EXCEPT ![source[1]] = CsvFile(source[2])]
    /\ data_sources = <<>>
    /\ unified_data = <<>>
    /\ pc = "start"
    /\ now = Epoch
    /\ summary = NoCall
    /\ labels = NoLabels

NextAnalyze ==
    \/ LoadAllData
    \/ CreateUnifiedDataset
    \/ GetComplianceSummary
    \/ GetRiskActivitiesSummary
    \/ GetIncidentsSummary

SpecAnalyze == InitAnalyze /\ [][NextAnalyze]_vars

\* C5: in every record of the Compliance, Risk and Incident analyzers each
\* percentage field (compliance %, recent compliance, risk %, closure %) lies
\* in [0, 100].
C5_PercentagesBounded ==
    LET bounded(p) == p.num >= 0 /\ p.num <= 100 * p.den
    IN \A i \in 1..Len(summary.records) :
          \A r \in {summary.records[i]} :
              /\ summary.analyzer = "compliance" =>
                    bounded(r.compliance_percentage) /\ bounded(r.recent_compliance)
              /\ summary.analyzer = "risk" => bounded(r.risk_percentage)
              /\ summary.analyzer = "incidents" => bounded(r.closure_percentage)

\* The rows of the unified dataset of a type whose department is `sector`.
SectorRows(data_type, sector) ==
    Bind(UnifiedGet(unified_data, data_type), LAMBDA df :
        SelectSeq(df.rows, LAMBDA r : r[At(df, COL_DEPT)] = VStr(sector)))

\* C8: without filters, the closed records of a sector are its inspection rows whose
\* status is 'مغلق' or 'Completed' ('Closed' has become 'مغلق' on load), and the
\* compliance percentage is their share of the sector's rows.
C8_ClosedSpellingsCounted ==
    (summary.analyzer = "compliance" /\ summary.filters = [none |-> FALSE, dict |-> <<>>]) =>
        \A i \in 1..Len(summary.records) :
            \A r \in {summary.records[i]}, df \in {UnifiedGet(unified_data, TYPE_INSPECTIONS)} :
                \A closed \in {SelectSeq(SectorRows(TYPE_INSPECTIONS, r.sector),
                                         LAMBDA row : row[At(df, COL_STATUS)]
                                             \in {VStr(ST_CLOSED),
                                                  VStr(<<"C", "l", "o", "s", "e", "d">>),
                                                  VStr(<<"C", "o", "m", "p", "l", "e", "t",
                                                         "e", "d">>)})} :
                    /\ r.closed_records = Len(closed)
                    /\ r.compliance_percentage = Percentage(Len(closed), r.total_records)

\* C9: without filters, a sector whose incidents hold no non-null recommendation
\* (the column is absent, or null in all rows of the sector) gets the number of its
\* incidents as its recommendation count, and closed / incidents * 100 as its
\* closure percentage.
C9_RecommendationFallback ==
    (summary.analyzer = "incidents" /\ summary.filters = [none |-> FALSE, dict |-> <<>>]) =>
        \A i \in 1..Len(summary.records) :
            \A r \in {summary.records[i]}, df \in {UnifiedGet(unified_data, TYPE_INCIDENTS)} :
                (\/ ~HasColumn(df, COL_RECOMMENDATION)
                 \/ \A row \in Members(SectorRows(TYPE_INCIDENTS, r.sector)) :
                       IsNa(row[At(df, COL_RECOMMENDATION)]))
                  => /\ r.recommendations_count = r.total_incidents
                     /\ r.closure_percentage = Percentage(r.closed, r.total_incidents)

(***************************************************************************)
(* The classifications on their own: the compliance classification on two  *)
(* compliance percentages with one trend, and the record of one risk       *)
(* activity on a table of `total` assessments of which `high` are high.    *)
(***************************************************************************)
MaxAssessments == 10

\* The trends, in halves of a percentage point, around the thresholds 0, 5 and -5.
TrendInputs ==
    {[num |-> n, den |-> 2] : n \in {-200, -100, -11, -10, -9, -1, 0, 1, 9, 10, 11, 100, 200}}

\* The risk assessments of one activity, the first `high` of them of level 'عالي'.
ActivityTable(high, total) ==
    [cols   |-> <<COL_ACTIVITY, COL_CLASS>>,
     dtypes |-> <<"object", "object">>,
     rows   |-> [i \in 1..total |->
                   <<VStr(Dig), VStr(IF i <= high THEN RISK_HIGH ELSE LVL_LOW)>>]]

InitClassify ==
    /\ summary \in
          {[analyzer |-> "sectors", raised |-> FALSE, records |-> <<>>,
            compliance |-> <<Whole(c1), Whole(c2)>>, trend |-> trend] :
              c1 \in 0..100, c2 \in 0..100, trend \in TrendInputs}
            \cup {[analyzer |-> "activity", raised |-> FALSE, records |-> <<>>,
                   high |-> high, total |-> total] :
                     high \in 0..MaxAssessments, total \in 1..MaxAssessments}
    /\ summary.analyzer = "sectors" => summary.compliance[2].num <= summary.compliance[1].num
    /\ summary.analyzer = "activity" => summary.high <= summary.total
    /\ database = NoDatabase
    /\ data_sources = <<>>
    /\ unified_data = <<>>
    /\ pc = "idle"
    /\ now = Epoch
    /\ labels = NoLabels

\* Lines 160-195 for two sectors with the same trend.
ClassifySectors ==
    /\ pc = "idle" /\ summary.analyzer = "sectors"
    /\ summary' = [summary EXCEPT !.records =
                      [i \in 1..2 |-> ClassifyCompliance(summary.compliance[i], summary.trend)]]
    /\ pc' = "analyzed"
    /\ UNCHANGED <<database, data_sources, unified_data, now, labels>>

\* Lines 283-323 for one activity.
SummarizeActivity ==
    /\ pc = "idle" /\ summary.analyzer = "activity"
    /\ \E df \in {ActivityTable(summary.high, summary.total)} :
          summary' = [summary EXCEPT !.records =
                         <<RiskRecord(df, Dig, RowsOf(df, COL_ACTIVITY, Dig))>>]
    /\ pc' = "analyzed"
    /\ UNCHANGED <<database, data_sources, unified_data, now, labels>>

NextClassify == ClassifySectors \/ SummarizeActivity

SpecClassify == InitClassify /\ [][NextClassify]_vars

\* Low <= Medium <= High <= Urgent.
Severity(priority) ==
    CASE priority = LVL_LOW -> 1
      [] priority = LVL_MEDIUM -> 2
      [] priority = RISK_HIGH -> 3
      [] priority = LVL_URGENT -> 4

\* C6: for one trend and two compliance percentages c1 > c2, the priority assigned
\* at c2 is at least as severe as the one assigned at c1.
C6_PriorityMonotone ==
    (pc = "analyzed" /\ summary.analyzer = "sectors"
       /\ Less(summary.compliance[2], summary.compliance[1])) =>
        Severity(summary.records[2].priority) >= Severity(summary.records[1].priority)

\* A pair of percentages on the two sides of a threshold with different priorities.
C6_Witness ==
    /\ pc = "analyzed" /\ summary.analyzer = "sectors"
    /\ summary.compliance[1] = Whole(70) /\ summary.compliance[2] = Whole(69)
    /\ summary.trend.num = 0
    /\ Severity(summary.records[2].priority) > Severity(summary.records[1].priority)

\* The classification table of the specification, top row first: the least compliance
\* percentage of the row, the trends of the row, the priority and the recommendation.
ClassificationTable ==
    <<[at_least |-> 90, trend |-> "not falling", priority |-> LVL_LOW,
       recommendation |-> "excellent"],
      [at_least |-> 90, trend |-> "falling", priority |-> LVL_MEDIUM,
       recommendation |-> "excellent, alert"],
      [at_least |-> 70, trend |-> "above 5", priority |-> LVL_MEDIUM,
       recommendation |-> "good, improving"],
      [at_least |-> 70, trend |-> "below -5", priority |-> RISK_HIGH,
       recommendation |-> "needs attention"],
      [at_least |-> 70, trend |-> "any", priority |-> LVL_MEDIUM,
       recommendation |-> "good"],
      [at_least |-> 0, trend |-> "above 5", priority |-> RISK_HIGH,
       recommendation |-> "improve, progress"],
      [at_least |-> 0, trend |-> "any", priority |-> LVL_URGENT,
       recommendation |-> "improve urgently"]>>

\* Whether a row of the table matches a compliance percentage and a trend.
RowMatches(row, compliance, trend) ==
    /\ ~Less(compliance, Whole(row.at_least))
    /\ CASE row.trend = "not falling" -> ~Less(trend, Whole(0))
         [] row.trend = "falling" -> Less(trend, Whole(0))
         [] row.trend = "above 5" -> Less(Whole(5), trend)
         [] row.trend = "below -5" -> Less(trend, Whole(-5))
         [] row.trend = "any" -> TRUE

\* C7: the priority and the recommendation of every (compliance %, trend) pair are
\* those of the first row of the table that matches the pair, and a row matches.
C7_FirstMatchingRow ==
    (pc = "analyzed" /\ summary.analyzer = "sectors") =>
        \A i \in 1..2 :
            \E k \in 1..Len(ClassificationTable) :
                /\ RowMatches(ClassificationTable[k], summary.compliance[i], summary.trend)
                /\ \A h \in 1..(k - 1) :
                      ~RowMatches(ClassificationTable[h], summary.compliance[i], summary.trend)
                /\ summary.records[i].priority = ClassificationTable[k].priority
                /\ summary.records[i].recommendation = ClassificationTable[k].recommendation

\* A pair classified by the fourth row: compliance 75 with a trend of -5.5 is High.
C7_Witness ==
    /\ pc = "analyzed" /\ summary.analyzer = "sectors"
    /\ summary.compliance[1] = Whole(75) /\ summary.trend = [num |-> -11, den |-> 2]
    /\ summary.records[1] = [priority |-> RISK_HIGH, recommendation |-> "needs attention"]

\* C10: the record of an activity has risk % = high_risk_count / total * 100; a
\* risk % of 70 or more gives level High, priority 1 and 'urgent review', one of 40
\* or more gives Medium and priority 2, a lower one gives Low and priority 3.
C10_RiskClassification ==
    (pc = "analyzed" /\ summary.analyzer = "activity") =>
        \A r \in {summary.records[1]} :
            /\ r.total_assessments = summary.total
            /\ r.high_risk_count = summary.high
            /\ r.risk_percentage.num * r.total_assessments
                  = r.high_risk_count * 100 * r.risk_percentage.den
            /\ r.high_risk_count * 100 >= 70 * r.total_assessments =>
                  /\ r.risk_level = <<"red_circle", " ">> \o RISK_HIGH
                  /\ r.priority = 1 /\ r.recommendation = "urgent review"
            /\ (/\ r.high_risk_count * 100 >= 40 * r.total_assessments
                /\ r.high_risk_count * 100 < 70 * r.total_assessments) =>
                  /\ r.risk_level = <<"yellow_circle", " ">> \o LVL_MEDIUM
                  /\ r.priority = 2 /\ r.recommendation = "intensified watch"
            /\ r.high_risk_count * 100 < 40 * r.total_assessments =>
                  /\ r.risk_level = <<"green_circle", " ">> \o LVL_LOW
                  /\ r.priority = 3 /\ r.recommendation = "periodic watch"

\* Ten assessments of which eight are high: 80 %, High, priority 1.
C10_Witness ==
    /\ pc = "analyzed" /\ summary.analyzer = "activity"
    /\ summary.total = 10 /\ summary.high = 8
    /\ summary.records[1].risk_percentage = [num |-> 800, den |-> 10]
    /\ summary.records[1].priority = 1
    /\ summary.records[1].recommendation = "urgent review"

\* The unified dataset an analyzer reads.
AnalyzedType(analyzer) ==
    CASE analyzer = "compliance" -> TYPE_INSPECTIONS
      [] analyzer = "risk" -> TYPE_RISK_ASSESSMENTS
      [] analyzer = "incidents" -> TYPE_INCIDENTS

\* C11: an analyzer called with the filters argument omitted (None) on a non-empty
\* unified dataset of its type returns its records and does not end in an error.
C11_DefaultFiltersNeverRaise ==
    (pc = "analyzed" /\ summary.filters.none
       /\ ~IsEmpty(UnifiedGet(unified_data, AnalyzedType(summary.analyzer))))
        => ~summary.raised

(***************************************************************************)
(* load_all_data on a database directory whose workbook and inspections    *)
(* CSV file may be missing, unreadable, well formed, or carry two date     *)
(* columns (the mapped 'تاريخ الملاحظة' and a column already named          *)
(* 'التاريخ'), and whose incidents CSV file, which is loaded last, may be    *)
(* missing or well formed.                                                 *)
(***************************************************************************)
\* A file that exists and that no reader can open or parse.
Unreadable == [exists |-> TRUE, readable |-> FALSE, sheets |-> <<>>]

\* A titled table with two columns that both end up labelled 'التاريخ'.
TwoDateColumns ==
    TitledTables(<<RawLabel(InspectionsCsv.column_mapping, 2), VStr(COL_DATE)>>,
                 <<{VStr(DateText(OldDay))}, {VStr(DateText(NewDay))}>>)

\* The status and department labels of line 55.
IncidentsTables ==
    TitledTables(<<RawLabel(IncidentsCsv.column_mapping, 3),
                   RawLabel(IncidentsCsv.column_mapping, 4)>>,
                 <<{VStr(<<"O", "p", "e", "n">>)}, {VStr(Ops)}>>)

InitLoad ==
    /\ \E book \in {MissingFile, Unreadable}
                     \cup {Workbook(<<[name |-> InspectionsSheet.name, raw |-> t]>>) :
                              t \in SheetInputs \cup TwoDateColumns},
          inspections \in {MissingFile, Unreadable}
                            \cup {CsvFile(t) : t \in CsvInputs \cup TwoDateColumns},
          incidents \in {MissingFile} \cup {CsvFile(t) : t \in IncidentsTables} :
          database = [NoDatabase EXCEPT ![excel_files[1].filename] = book,
                                        ![InspectionsCsv.filename] = inspections,
                                        ![IncidentsCsv.filename] = incidents]
    /\ data_sources = <<>>
    /\ unified_data = <<>>
    /\ pc = "start"
    /\ now = Epoch
    /\ summary = NoCall
    /\ labels = NoLabels

NextLoad == LoadAllData

SpecLoad == InitLoad /\ [][NextLoad]_vars

\* Whether data_sources has an entry for the file.
IsLoaded(filename) ==
    \E k \in 1..Len(data_sources) : data_sources[k].filename = filename

\* C12: whatever files are missing, unreadable or fail while cleaned, load_all_data
\* completes without an error, and every CSV file that is readable and cleans to a
\* non-empty table is among the sources it returns.
C12_LoadNeverAborts ==
    pc # "start" =>
        /\ pc = "loaded"
        /\ \A i \in 1..Len(csv_files) :
              \A file \in {database[csv_files[i].filename]} :
                  (file.exists /\ file.readable
                     /\ ~CsvResult(database, i).raised /\ ~IsEmpty(CsvResult(database, i).df))
                    => IsLoaded(csv_files[i].filename)

(***************************************************************************)
(* load_csv_data on its own, one encoding at a time (lines 149-169).  What *)
(* pd.read_csv does under each encoding is an input: it raises            *)
(* UnicodeDecodeError, raises another exception, or reads a table; the     *)
(* bytes of a file decode to different text under different encodings, so  *)
(* the table read under the k-th encoding carries k in a cell.             *)
(*   summary.outcomes : what pd.read_csv does under each encoding          *)
(*   summary.tried    : the encodings tried so far                         *)
(*   summary.df       : df of line 149 (<<>> is None)                      *)
(*   summary.result   : what the call returned (<<>> before it returns)    *)
(***************************************************************************)
ReadOutcomes == {"UnicodeDecodeError", "ParserError", "read"}

\* The table pd.read_csv reads under the k-th encoding: the status and department
\* labels of line 54 under a title line, and one row.
DecodedAs(k) ==
    [cols |-> TitleLabels(2),
     rows |-> <<<<RawLabel(InspectionsCsv.column_mapping, 4),
                  RawLabel(InspectionsCsv.column_mapping, 5)>>,
                <<VStr(<<"O", "p", "e", "n">>), VStr(NatToStr(k))>>>>]

InitEncodings ==
    /\ summary \in {[analyzer |-> "load_csv_data", outcomes |-> o, tried |-> <<>>,
                     df |-> <<>>, result |-> <<>>] :
                       o \in [1..Len(ENCODING_OPTIONS) -> ReadOutcomes]}
    /\ database = NoDatabase
    /\ data_sources = <<>>
    /\ unified_data = <<>>
    /\ pc = "reading"
    /\ now = Epoch
    /\ labels = NoLabels

\* Lines 150-158 once without the break of line 153: a table read is kept and the
\* loop goes on to the next encoding.
TryEncodingNoBreak ==
    /\ pc = "reading" /\ Len(summary.tried) < Len(ENCODING_OPTIONS)
    /\ \E k \in {Len(summary.tried) + 1} :
          summary' = [summary EXCEPT !.tried = Append(@, ENCODING_OPTIONS[k]),
                                     !.df = IF summary.outcomes[k] = "read"
                                            THEN ReadTable(DecodedAs(k)) ELSE @]
    /\ pc' = "reading"
    /\ UNCHANGED <<database, data_sources, unified_data, now, labels>>

\* Lines 150-158 once: the next encoding is tried; a table read ends the loop with
\* it, an exception goes on to the next encoding.
TryEncoding ==
    /\ pc = "reading" /\ Len(summary.tried) < Len(ENCODING_OPTIONS)
    /\ \E k \in {Len(summary.tried) + 1} :
          IF summary.outcomes[k] = "read"
          THEN /\ summary' = [summary EXCEPT !.tried = Append(@, ENCODING_OPTIONS[k]),
                                             !.df = ReadTable(DecodedAs(k))]
               /\ pc' = "read"
          ELSE /\ summary' = [summary EXCEPT !.tried = Append(@, ENCODING_OPTIONS[k])]
               /\ pc' = "reading"
    /\ UNCHANGED <<database, data_sources, unified_data, now, labels>>

\* The loop ends with no encoding left: with df None the empty table is returned
\* (lines 160-162).
EncodingsExhausted ==
    /\ pc = "reading" /\ Len(summary.tried) = Len(ENCODING_OPTIONS)
    /\ IF summary.df = <<>>
       THEN /\ summary' = [summary EXCEPT !.result = Returned(EmptyTable)]
            /\ pc' = "returned"
       ELSE pc' = "read" /\ UNCHANGED summary
    /\ UNCHANGED <<database, data_sources, unified_data, now, labels>>

\* Lines 164-169: the table read is cleaned and tagged.
CleanAndTag ==
    /\ pc = "read"
    /\ summary' = [summary EXCEPT !.result =
                      LoadCsvData(CsvFile([cols |-> summary.df.cols, rows |-> summary.df.rows]),
                                  InspectionsCsv.filename, InspectionsCsv.column_mapping,
                                  InspectionsCsv.unified_type)]
    /\ pc' = "returned"
    /\ UNCHANGED <<database, data_sources, unified_data, now, labels>>

NextEncodings == TryEncoding \/ EncodingsExhausted \/ CleanAndTag

SpecEncodings == InitEncodings /\ [][NextEncodings]_vars

\* The encodings under which pd.read_csv reads the file.
ReadableUnder == {k \in 1..Len(ENCODING_OPTIONS) : summary.outcomes[k] = "read"}

\* C13: the encodings are tried in the order utf-8, utf-8-sig, cp1256, iso-8859-1;
\* the table read by the first encoding that succeeds is used and no later encoding
\* is tried; when every encoding fails the empty table is returned, not an error.
C13_FirstEncodingWins ==
    /\ ENCODING_OPTIONS = <<"utf-8", "utf-8-sig", "cp1256", "iso-8859-1">>
    /\ \A i \in 1..Len(summary.tried) : summary.tried[i] = ENCODING_OPTIONS[i]
    /\ \A k \in ReadableUnder :
          (\A h \in ReadableUnder : k <= h) =>
              /\ Len(summary.tried) <= k
              /\ pc \in {"read", "returned"} =>
                    /\ Len(summary.tried) = k
                    /\ summary.df = ReadTable(DecodedAs(k))
    /\ (pc = "returned" /\ ReadableUnder = {}) => summary.result = Returned(EmptyTable)
    /\ (pc = "returned" /\ ReadableUnder # {}) =>
          /\ ~summary.result.raised
          /\ \E i \in 1..NRows(summary.result.df) :
                \E j \in 1..NCols(summary.result.df) :
                    summary.result.df.rows[i][j] = VStr(NatToStr(Len(summary.tried)))

\* A file that only cp1256 and iso-8859-1 read has been loaded on the third attempt.
C13_Witness ==
    /\ pc = "returned"
    /\ summary.outcomes = <<"UnicodeDecodeError", "UnicodeDecodeError", "read", "read">>
    /\ summary.tried = <<"utf-8", "utf-8-sig", "cp1256">>
    /\ ~IsEmpty(summary.result.df)

(***************************************************************************)
(* The Column Normalizer followed by the Column Mapper on one label: lines *)
(* 179-183 and 196-197 of _clean_dataframe.  The label is a key of a       *)
(* configured column mapping, as the config spells it or with its spacing  *)
(* or letter case changed.                                                 *)
(***************************************************************************)
\* The column mappings of DATA_CONFIG.
ColumnMappings ==
    {excel_files[1].sheets[i].column_mapping : i \in 1..Len(excel_files[1].sheets)}
      \cup {csv_files[i].column_mapping : i \in 1..Len(csv_files)}

\* str.upper() on ASCII letters.
Upper(str) ==
    [i \in 1..Len(str) |->
        IF \E u \in DOMAIN UpperToLower : UpperToLower[u] = str[i]
        THEN CHOOSE u \in DOMAIN UpperToLower : UpperToLower[u] = str[i]
        ELSE str[i]]

\* The spellings of a key that differ from it in spacing or letter case only: the
\* key, the key between blanks, with every blank doubled, with a newline for every
\* blank, in lower case and in upper case.
Respelled(key, variant) ==
    CASE variant = "same" -> key
      [] variant = "padded" -> <<" ", " ">> \o key \o <<" ">>
      [] variant = "doubled" ->
            SelectSeq([i \in 1..(2 * Len(key)) |->
                          IF i % 2 = 1 THEN key[(i + 1) \div 2]
                          ELSE IF key[i \div 2] = " " THEN " " ELSE ""],
                      LAMBDA c : c # "")
      [] variant = "newlines" -> [i \in 1..Len(key) |-> IF key[i] = " " THEN "\n" ELSE key[i]]
      [] variant = "lower" -> Lower(key)
      [] variant = "upper" -> Upper(key)

Respellings == {"same", "padded", "doubled", "newlines", "lower", "upper"}

InitMapper ==
    /\ \E column_mapping \in ColumnMappings :
          \E k \in 1..Len(column_mapping), variant \in Respellings :
              labels = [step |-> "raw", cleaned |-> <<>>, new_cols |-> <<>>, mapped |-> <<>>,
                        column_mapping |-> column_mapping, key |-> k,
                        raw |-> <<VStr(Respelled(column_mapping[k][1], variant))>>]
    /\ database = NoDatabase
    /\ data_sources = <<>>
    /\ unified_data = <<>>
    /\ pc = "idle"
    /\ now = Epoch
    /\ summary = NoCall

\* df = self._rename_columns(df, column_mapping)
RenameLabels ==
    /\ labels.step = "deduped"
    /\ labels' = [labels EXCEPT !.step = "mapped",
                                !.mapped = RenameColumns(labels.new_cols, labels.column_mapping)]
    /\ UNCHANGED <<database, data_sources, unified_data, pc, now, summary>>

NextMapper == CleanColumns \/ DedupColumns \/ RenameLabels

SpecMapper == InitMapper /\ [][NextMapper]_vars

\* C14: a source column whose raw label is a key of the column mapping, or differs
\* from the key in spacing, newlines or letter case only, is named by the value of
\* the key after the Column Normalizer and the Column Mapper.
C14_KeyColumnsMapped ==
    labels.step = "mapped" =>
        labels.mapped[1] = labels.column_mapping[labels.key][2]

(***************************************************************************)
(* _clean_dataframe step by step (lines 171-208).                          *)
(*   summary.column_mapping : the column mapping of the call               *)
(*   summary.input          : the table as read                            *)
(*   summary.df             : df                                           *)
(*   summary.prev           : df before the last step                      *)
(*   summary.steps          : the steps that have run, in order            *)
(*   summary.raised         : whether the call ended in an error           *)
(* pc is "clean_entry" at the call, "cleaning" between the steps and       *)
(* "returned" or "failed" at the end.                                      *)
(***************************************************************************)
\* The steps as they are ordered with the Type Coercer ahead of the Column Mapper.
CoerceBeforeMapping ==
    <<"Normalizer", "Header Promoter", "Type Coercer", "Column Mapper",
      "Text Canonicalizer", "Status Canonicalizer">>

\* The steps of lines 179-206, in the order of the code.
CleaningSteps ==
    <<"Normalizer", "Header Promoter", "Column Mapper", "Type Coercer",
      "Text Canonicalizer", "Status Canonicalizer">>

\* The step the call is at.
NextStep ==
    IF pc = "cleaning" /\ Len(summary.steps) < Len(CleaningSteps)
    THEN CleaningSteps[Len(summary.steps) + 1] ELSE "none"

\* The call frame and the position once `step` has left `df`.
StepDone(step, df) ==
    /\ summary' = [summary EXCEPT !.prev = summary.df, !.df = df, !.steps = Append(@, step)]
    /\ pc' = IF Len(summary.steps) + 1 = Len(CleaningSteps) THEN "returned" ELSE "cleaning"

\* The call frame and the position once a step has raised.
StepRaised ==
    /\ summary' = [summary EXCEPT !.raised = TRUE]
    /\ pc' = "failed"

\* The report of the specification: a title line, the header row ID, Date, Status and
\* one or two rows.
ReportInputs ==
    TitledTables(<<VStr(<<"I", "D">>), VStr(<<"D", "a", "t", "e">>),
                   VStr(<<"S", "t", "a", "t", "u", "s">>)>>,
                 <<{VStr(<<"7">>), VStr(<<"8">>)},
                   {VStr(DateText(OldDay)), VStr(<<"s", "o", "o", "n">>)},
                   {VStr(<<"O", "p", "e", "n">>), VStr(<<"C", "l", "o", "s", "e", "d">>)}>>)

\* Tables of three columns, named or unnamed in the header line, whose first row
\* mixes text, number text, numbers and empty cells; a row of numbers follows.
FirstRowInputs ==
    {[cols |-> header, rows |-> <<first, <<VInt(1), VInt(2), VInt(3)>>>>] :
        header \in {<<VStr(<<"A">>), VStr(<<"B">>), VStr(<<"C">>)>>,
                    [j \in 1..3 |-> VStr(Unnamed \o <<":", " ">> \o NatToStr(j - 1))]},
        first \in [1..3 -> {VStr(<<"x">>), VStr(<<"5">>), VInt(5), NULL}]}

\* Titled tables with the department label of line 54 and a second text column,
\* named 'Note' or by the canonical name of the first ('الإدارة'); the cells are
\* text with blanks around it, blank text and the text ' nan '.
PaddedTextInputs ==
    UNION {TitledTables(<<RawLabel(InspectionsCsv.column_mapping, 5), VStr(second)>>,
                        <<{VStr(<<" ", "H", "R">>), VStr(HR)},
                          {VStr(<<"O", "p", "s", " ">>), VStr(<<" ", "n", "a", "n", " ">>),
                           VStr(<<" ">>)}>>) :
              second \in {<<"N", "o", "t", "e">>, COL_DEPT}}

\* Titled tables under the labels of lines 54 and 58: a date and a status column, an
\* activity and a risk percentage column; a cell may hold text that is no date and
\* no number.  The last tables have two columns that the mapping names alike.
MappedInputs ==
    {[raw |-> t, column_mapping |-> InspectionsCsv.column_mapping] :
        t \in TitledTables(<<RawLabel(InspectionsCsv.column_mapping, 2),
                             RawLabel(InspectionsCsv.column_mapping, 4)>>,
                           <<{VStr(DateText(OldDay)), VStr(<<"s", "o", "o", "n">>)},
                             {VStr(<<"O", "p", "e", "n">>), VStr(ST_CLOSED)}>>)}
      \cup {[raw |-> t, column_mapping |-> RiskCsv.column_mapping] :
               t \in TitledTables(<<RawLabel(RiskCsv.column_mapping, 5),
                                    RawLabel(RiskCsv.column_mapping, 6)>>,
                                  <<{VStr(Dig)},
                                    {VStr(<<"0", ".", "8">>), VStr(<<"h", "i", "g", "h">>)}>>)}
      \cup {[raw |-> t, column_mapping |-> InspectionsCsv.column_mapping] :
               t \in TwoDateColumns \cup PaddedTextInputs}

CleanInputs ==
    {[raw |-> t, column_mapping |-> <<>>] : t \in ReportInputs \cup FirstRowInputs}
      \cup MappedInputs

InitClean ==
    /\ \E in \in CleanInputs :
          summary = [analyzer |-> "_clean_dataframe", column_mapping |-> in.column_mapping,
                     input |-> ReadTable(in.raw), df |-> ReadTable(in.raw),
                     prev |-> ReadTable(in.raw), steps |-> <<>>, raised |-> FALSE]
    /\ database = NoDatabase
    /\ data_sources = <<>>
    /\ unified_data = <<>>
    /\ pc = "clean_entry"
    /\ now = Epoch
    /\ labels = NoLabels

\* Lines 173-177: an empty table is returned as it is; else the empty rows and
\* columns are dropped.
DropEmptyRowsAndColumns ==
    /\ pc = "clean_entry"
    /\ IF IsEmpty(summary.df)
       THEN pc' = "returned" /\ UNCHANGED summary
       ELSE /\ summary' = [summary EXCEPT !.prev = summary.df, !.df = DropEmpty(summary.df)]
            /\ pc' = "cleaning"
    /\ UNCHANGED <<database, data_sources, unified_data, now, labels>>

\* Lines 179-183.
NormalizeLabels ==
    /\ NextStep = "Normalizer"
    /\ StepDone("Normalizer", NormalizeColumns(summary.df))
    /\ UNCHANGED <<database, data_sources, unified_data, now, labels>>

\* Lines 185-193.
PromoteHeaderRow ==
    /\ NextStep = "Header Promoter"
    /\ StepDone("Header Promoter", PromoteHeader(summary.df))
    /\ UNCHANGED <<database, data_sources, unified_data, now, labels>>

\* Lines 195-197.
RenameMappedColumns ==
    /\ NextStep = "Column Mapper"
    /\ StepDone("Column Mapper", MapColumns(summary.df, summary.column_mapping))
    /\ UNCHANGED <<database, data_sources, unified_data, now, labels>>

\* Line 200.
CoerceTypes ==
    /\ NextStep = "Type Coercer"
    /\ IF CoercionRaises(summary.df) THEN StepRaised
       ELSE StepDone("Type Coercer", StandardizeDataTypes(summary.df))
    /\ UNCHANGED <<database, data_sources, unified_data, now, labels>>

\* Line 203.
CleanText ==
    /\ NextStep = "Text Canonicalizer"
    /\ StepDone("Text Canonicalizer", CleanTextData(summary.df))
    /\ UNCHANGED <<database, data_sources, unified_data, now, labels>>

\* Line 206.
CanonicalizeStatus ==
    /\ NextStep = "Status Canonicalizer"
    /\ IF StatusRaises(summary.df) THEN StepRaised
       ELSE StepDone("Status Canonicalizer", StandardizeStatusValues(summary.df))
    /\ UNCHANGED <<database, data_sources, unified_data, now, labels>>

NextClean ==
    \/ DropEmptyRowsAndColumns
    \/ NormalizeLabels
    \/ PromoteHeaderRow
    \/ RenameMappedColumns
    \/ CoerceTypes
    \/ CleanText
    \/ CanonicalizeStatus

SpecClean == InitClean /\ [][NextClean]_vars

\* The step that has just run.
LastStep == IF summary.steps = <<>> THEN "none" ELSE summary.steps[Len(summary.steps)]

\* Whether the Header Promoter has just taken the first row for a header.
Promoted ==
    /\ LastStep = "Header Promoter"
    /\ NRows(summary.df) = NRows(summary.prev) - 1

\* The labels a promoted row gives when no two of its cells clean to the same name:
\* the cell cleaned as a label, col_<index> for a null cell.
CellsAsLabels(row) ==
    [j \in 1..Len(row) |->
        IF IsNa(row[j]) THEN ColPlaceholder(j - 1) ELSE CleanLabelText(ToStr(row[j]), j - 1)]

\* C15: when the Header Promoter takes the first row for a header, the cells of the
\* row, normalized and deduplicated, null cells named col_<index>, are the labels, the
\* row is gone from the data and the later rows are kept in order; the report whose
\* header line is a title and whose first row is ID, Date, Status ends with these
\* three labels and with neither line among its rows.
C15_PromotionEffect ==
    /\ Promoted =>
          /\ summary.df.rows = Tail(summary.prev.rows)
          /\ Len(summary.df.cols) = Len(summary.prev.cols)
          /\ \A j \in 1..Len(summary.df.cols) :
                \A cells \in {CellsAsLabels(summary.prev.rows[1])} :
                    /\ IsNa(summary.prev.rows[1][j]) /\ (\A i \in 1..Len(cells) : i # j => cells[i] # cells[j])
                         => summary.df.cols[j] = ColPlaceholder(j - 1)
                    /\ (\A i \in 1..(j - 1) : cells[i] # cells[j])
                         => summary.df.cols[j] = cells[j]
                    /\ (\E i \in 1..(j - 1) : cells[i] = cells[j])
                         => \E k \in 1..(j - 1) :
                               summary.df.cols[j] = cells[j] \o <<"_">> \o NatToStr(k)
    /\ (LastStep = "Header Promoter" /\ summary.input.cols = TitleLabels(3)
          /\ summary.input.rows[1] = <<VStr(<<"I", "D">>), VStr(<<"D", "a", "t", "e">>),
                                       VStr(<<"S", "t", "a", "t", "u", "s">>)>>) =>
          /\ summary.df.cols = <<<<"I", "D">>, <<"D", "a", "t", "e">>,
                                 <<"S", "t", "a", "t", "u", "s">>>>
          /\ summary.df.rows = Tail(summary.input.rows)

\* The report with two rows under its header row has been through the Header Promoter.
C15_Witness ==
    /\ Promoted
    /\ summary.input.cols = TitleLabels(3)
    /\ summary.df.cols = <<<<"I", "D">>, <<"D", "a", "t", "e">>,
                           <<"S", "t", "a", "t", "u", "s">>>>
    /\ NRows(summary.df) = 2
    /\ summary.df.rows[1] # summary.df.rows[2]

(***************************************************************************)
(* The Column Normalizer run a second time, on the labels it produced.     *)
(***************************************************************************)
\* Lines 179-183 on the labels of the table they produced.
NormalizeAgain ==
    /\ labels.step = "deduped"
    /\ labels' = [step |-> "renormalized", raw |-> labels.raw, cleaned |-> labels.cleaned,
                  new_cols |-> labels.new_cols,
                  again |-> HandleDuplicateColumns(CleanColumnNames(
                                [j \in 1..Len(labels.new_cols) |-> VStr(labels.new_cols[j])]))]
    /\ UNCHANGED <<database, data_sources, unified_data, pc, now, summary>>

NextRenormalize == CleanColumns \/ DedupColumns \/ NormalizeAgain

SpecRenormalize == InitColumns /\ [][NextRenormalize]_vars

\* C16: the Column Normalizer (label cleaning, then duplicate suffixing) applied to
\* its own output returns that output unchanged.
C16_NormalizerIdempotent ==
    labels.step = "renormalized" => labels.again = labels.new_cols

(***************************************************************************)
(* The Status Canonicalizer on its own: _standardize_status_values on a    *)
(* table with one status column of one or two cells, each a key of the     *)
(* synonym table, a spelling the table does not hold, or null.             *)
(*   summary.input : the table handed over                                 *)
(*   summary.df    : the table returned                                    *)
(***************************************************************************)
StatusCells ==
    {VStr(k) : k \in StatusKeys}
      \cup {VStr(<<"C", "o", "m", "p", "l", "e", "t", "e", "d">>), NULL}

InitStatus ==
    /\ \E df \in UNION {{[cols |-> <<COL_STATUS>>, dtypes |-> <<"object">>,
                          rows |-> [i \in 1..n |-> <<cells[i]>>]] :
                            cells \in [1..n -> StatusCells]} : n \in 1..MaxRows} :
          summary = [analyzer |-> "_standardize_status_values", input |-> df, df |-> df]
    /\ database = NoDatabase
    /\ data_sources = <<>>
    /\ unified_data = <<>>
    /\ pc = "idle"
    /\ now = Epoch
    /\ labels = NoLabels

\* df = self._standardize_status_values(df)
StandardizeStatus ==
    /\ pc = "idle"
    /\ summary' = [summary EXCEPT !.df = StandardizeStatusValues(summary.df)]
    /\ pc' = "canonical"
    /\ UNCHANGED <<database, data_sources, unified_data, now, labels>>

NextStatus == StandardizeStatus

SpecStatus == InitStatus /\ [][NextStatus]_vars

\* C17: every key of the synonym table is mapped to one of the two canonical values,
\* the in-review and pending spellings to Open ('مفتوح'), the complete and completed
\* spellings to Closed ('مغلق'); no key is in the table twice.
C17_SynonymTableClosed ==
    /\ \A i, j \in 1..Len(status_mappings) :
          status_mappings[i][1] = status_mappings[j][1] => i = j
    /\ pc = "canonical" =>
          \A i \in 1..NRows(summary.input) :
              \A in \in {summary.input.rows[i][1]}, out \in {summary.df.rows[i][1]} :
                  /\ (in.k = "str" /\ in.s \in StatusKeys) =>
                        out \in {VStr(ST_OPEN), VStr(ST_CLOSED)}
                  /\ in \in {VStr(ST_IN_REVIEW), VStr(<<"i", "n", " ", "r", "e", "v", "i", "e", "w">>),
                             VStr(<<"p", "e", "n", "d", "i", "n", "g">>)} => out = VStr(ST_OPEN)
                  /\ in \in {VStr(ST_COMPLETE), VStr(<<"c", "o", "m", "p", "l", "e", "t", "e">>),
                             VStr(<<"c", "o", "m", "p", "l", "e", "t", "e", "d">>)}
                        => out = VStr(ST_CLOSED)

\* A column holding 'pending' and 'completed' has been canonicalized to Open, Closed.
C17_Witness ==
    /\ pc = "canonical"
    /\ NRows(summary.input) = 2
    /\ summary.input.rows[1][1] = VStr(<<"p", "e", "n", "d", "i", "n", "g">>)
    /\ summary.input.rows[2][1] = VStr(<<"c", "o", "m", "p", "l", "e", "t", "e", "d">>)
    /\ summary.df.rows = <<<<VStr(ST_OPEN)>>, <<VStr(ST_CLOSED)>>>>

\* Whether more than half of the labels are placeholders: names the reader made up
\* ('Unnamed: <n>') or the Column Normalizer gave (col_<index>).
MostlyPlaceholders(cols) ==
    2 * Cardinality({j \in 1..Len(cols) :
                        cols[j] = ColPlaceholder(j - 1) \/ StartsWith(cols[j], Unnamed)})
        > Len(cols)

\* C18: with f the fraction of the non-null cells of the first row that are strings
\* not parsing as a bare number, the Header Promoter takes the row for a header if and
\* only if f > 0.5, or most labels are placeholders and f > 0.3; otherwise it leaves
\* the labels and the rows as they are.
C18_PromotionDecision ==
    (LastStep = "Header Promoter" /\ NRows(summary.prev) > 0) =>
        \A strings \in {StringLikeCount(summary.prev.rows[1])},
           filled \in {NotNaCount(summary.prev.rows[1])} :
            IF \/ filled > 0 /\ 2 * strings > filled
               \/ /\ MostlyPlaceholders(summary.prev.cols)
                  /\ filled > 0 /\ 10 * strings > 3 * filled
            THEN Promoted
            ELSE summary.df = summary.prev

\* C19: a non-empty table goes through the steps once each in the order Normalizer,
\* Header Promoter, Column Mapper, Type Coercer, Text Canonicalizer, Status
\* Canonicalizer, and the Type Coercer and the Status Canonicalizer decide on the
\* names the Column Mapper gave: in the table returned a column whose mapped name
\* holds a date token is a datetime column, one whose mapped name holds a numeric
\* token is a numeric column, and a status column the source named by a key of the
\* mapping holds no key of the synonym table.
C19_CleaningOrder ==
    /\ \A i \in 1..Len(summary.steps) :
          summary.steps[i] = <<"Normalizer", "Header Promoter", "Column Mapper", "Type Coercer",
                               "Text Canonicalizer", "Status Canonicalizer">>[i]
    /\ pc = "returned" =>
          /\ Len(summary.steps) = 6
          /\ \A j \in 1..NCols(summary.df) :
                /\ IsDateColumn(summary.df.cols[j]) => summary.df.dtypes[j] = "datetime64"
                /\ IsNumericColumn(summary.df.cols[j]) =>
                      summary.df.dtypes[j] \in {"int64", "float64"}
                /\ IsStatusColumn(summary.df.cols[j]) =>
                      \A i \in 1..NRows(summary.df) :
                          summary.df.rows[i][j].k = "str" =>
                              summary.df.rows[i][j].s \notin StatusKeys \ {ST_OPEN, ST_CLOSED}

\* The risk table has been cleaned: its column 'نسب المخاطرة', whose source name holds
\* no numeric token, is returned as the numeric column 'نسبة_المخاطرة'.
C19_Witness ==
    /\ pc = "returned"
    /\ summary.column_mapping = RiskCsv.column_mapping
    /\ ~IsNumericColumn(summary.input.rows[1][2].s)
    /\ summary.df.cols[2] = COL_RISK_PCT
    /\ summary.df.dtypes[2] = "float64"
    /\ \E i \in 1..NRows(summary.df) : summary.df.rows[i][2] = VFloat(80)

\* C20: once the Type Coercer has run, every value of a column whose name holds a date
\* token is a timestamp or null, every value of a column whose name holds a numeric
\* token and no date token is a number or null, text that is no date or no number has
\* become null, and a column whose name holds neither token is as it was; the Type
\* Coercer ends in an error only on a table with a repeated label.
C20_TypeCoercerFrame ==
    /\ (pc = "failed" /\ LastStep = "Column Mapper") =>
          \E j \in 1..NCols(summary.df) : IsDuplicated(summary.df, summary.df.cols[j])
    /\ LastStep = "Type Coercer" =>
          /\ summary.df.cols = summary.prev.cols
          /\ NRows(summary.df) = NRows(summary.prev)
          /\ \A j \in 1..NCols(summary.df) :
                \A name \in {Lower(summary.df.cols[j])} :
                    \A date \in {\E kw \in DateKeywords : Contains(name, kw)},
                       number \in {\E kw \in NumericKeywords : Contains(name, kw)} :
                        \A i \in 1..NRows(summary.df) :
                            \A old \in {summary.prev.rows[i][j]}, new \in {summary.df.rows[i][j]} :
                                /\ date => new.k \in {"ts", "null"}
                                /\ (date /\ old.k = "str" /\ ~IsIsoDate(old.s)) => new = NULL
                                /\ (number /\ ~date) => new.k \in {"int", "float", "null"}
                                /\ (number /\ ~date /\ old.k = "str" /\ ~IsDecimalText(old.s))
                                      => new = NULL
                                /\ (~date /\ ~number) =>
                                      new = old /\ summary.df.dtypes[j] = summary.prev.dtypes[j]

\* A table with a date column holding a date and a text that is no date, and a status
\* column, has been through the Type Coercer: a timestamp, a null, the statuses as
\* they were.
C20_Witness ==
    /\ LastStep = "Type Coercer"
    /\ summary.df.cols = <<COL_DATE, COL_STATUS>>
    /\ NRows(summary.df) = 2
    /\ summary.prev.rows[1][1] = VStr(DateText(OldDay)) /\ summary.df.rows[1][1] = VTs(OldDay)
    /\ summary.prev.rows[2][1] = VStr(<<"s", "o", "o", "n">>) /\ summary.df.rows[2][1] = NULL
    /\ summary.df.rows[1][2] = summary.prev.rows[1][2]

(***************************************************************************)
(* The risk level derived from the risk percentage: a risk assessments     *)
(* CSV file with an activity and a risk percentage column and no risk      *)
(* level column is cleaned as load_csv_data cleans it, then                *)
(* get_risk_activities_summary derives the level of each row.  The         *)
(* percentages stand at and around the cut points 0.7 and 0.4; one is text *)
(* that is no number and one is an empty cell.                             *)
(***************************************************************************)
RiskPercentageInputs ==
    TitledTables(<<RawLabel(RiskCsv.column_mapping, 5), RawLabel(RiskCsv.column_mapping, 6)>>,
                 <<{VStr(Dig)},
                   {VStr(<<"1">>), VStr(<<"0", ".", "7">>), VStr(<<"0", ".", "6", "9">>),
                    VStr(<<"0", ".", "4">>), VStr(<<"0", ".", "3", "9">>),
                    VStr(<<"h", "i", "g", "h">>), NULL}>>)

InitRiskLevel ==
    /\ \E raw \in RiskPercentageInputs :
          summary = [analyzer |-> "risk_level", input |-> ReadTable(raw),
                     df |-> ReadTable(raw), raised |-> FALSE]
    /\ database = NoDatabase
    /\ data_sources = <<>>
    /\ unified_data = <<>>
    /\ pc = "read"
    /\ now = Epoch
    /\ labels = NoLabels

\* data_processor.py line 165: the table through _clean_dataframe under the column
\* mapping of line 58.
CleanRiskTable ==
    /\ pc = "read"
    /\ \E res \in {CleanDataframe(summary.df, RiskCsv.column_mapping)} :
          /\ summary' = [summary EXCEPT !.df = res.df, !.raised = res.raised]
          /\ pc' = IF res.raised THEN "failed" ELSE "cleaned"
    /\ UNCHANGED <<database, data_sources, unified_data, now, labels>>

\* dashboard_analyzer.py lines 260-275.
DeriveRiskLevel ==
    /\ pc = "cleaned"
    /\ HasColumn(summary.df, COL_ACTIVITY)
    /\ summary' = [summary EXCEPT !.df = WithRiskLevel(summary.df)]
    /\ pc' = "derived"
    /\ UNCHANGED <<database, data_sources, unified_data, now, labels>>

NextRiskLevel == CleanRiskTable \/ DeriveRiskLevel

SpecRiskLevel == InitRiskLevel /\ [][NextRiskLevel]_vars

\* C21: with no risk level column, the derived level of a row is High if its risk
\* percentage is at least 0.7, Medium if at least 0.4, Low if below 0.4, and
\* Undetermined if the source value is no number (it is null once the Type Coercer
\* has run); such a row is never Low.
C21_DerivedRiskLevel ==
    pc = "derived" =>
        /\ NRows(summary.df) = NRows(summary.input) - 1
        /\ \A i \in 1..NRows(summary.df) :
              \A source \in {summary.input.rows[i + 1][2]},
                 level \in {summary.df.rows[i][At(summary.df, COL_CLASS)]} :
                  /\ (source.k = "str" /\ IsDecimalText(source.s)) =>
                        level = VStr(IF DecimalHundredths(source.s) >= 70 THEN RISK_HIGH
                                     ELSE IF DecimalHundredths(source.s) >= 40 THEN LVL_MEDIUM
                                     ELSE LVL_LOW)
                  /\ (source.k = "str" /\ ~IsDecimalText(source.s)) =>
                        level = VStr(LVL_UNDETERMINED)

(***************************************************************************)
(* The analyzers by sector: an inspections or an incidents CSV file whose  *)
(* department names are HR, HR2 (which contains HR) and Ops, loaded,       *)
(* unified and summarized.  An inspection is dated more than 90 days       *)
(* before the clock, exactly 90 days before it, or after it.               *)
(***************************************************************************)
HR2 == <<"H", "R", "2">>

\* A date after every reading of the clock.
LaterDay == NewDay + 200

SectorInspections ==
    TitledTables(<<RawLabel(InspectionsCsv.column_mapping, 2),
                   RawLabel(InspectionsCsv.column_mapping, 4),
                   RawLabel(InspectionsCsv.column_mapping, 5)>>,
                 <<{VStr(DateText(OldDay)), VStr(DateText(NewDay)), VStr(DateText(LaterDay))},
                   {VStr(<<"C", "l", "o", "s", "e", "d">>), VStr(<<"O", "p", "e", "n">>)},
                   {VStr(HR), VStr(HR2), VStr(Ops)}>>)

SectorIncidents ==
    TitledTables(<<RawLabel(IncidentsCsv.column_mapping, 3),
                   RawLabel(IncidentsCsv.column_mapping, 4)>>,
                 <<{VStr(<<"C", "l", "o", "s", "e", "d">>), VStr(<<"O", "p", "e", "n">>)},
                   {VStr(HR), VStr(HR2), VStr(Ops)}>>)

InitSectors ==
    /\ \E source \in ({InspectionsCsv.filename} \X SectorInspections)
                       \cup ({IncidentsCsv.filename} \X SectorIncidents) :
          database = [NoDatabase EXCEPT ![source[1]] = CsvFile(source[2])]
    /\ data_sources = <<>>
    /\ unified_data = <<>>
    /\ pc = "start"
    /\ now = Epoch
    /\ summary = NoCall
    /\ labels = NoLabels

NextSectors ==
    \/ LoadAllData
    \/ CreateUnifiedDataset
    \/ GetComplianceSummary
    \/ GetIncidentsSummary

SpecSectors == InitSectors /\ [][NextSectors]_vars

\* The inspection rows a compliance call works on, and those of them whose
\* department is `sector`.
FilteredInspections == ApplyCommonFilters(UnifiedGet(unified_data, TYPE_INSPECTIONS), summary.filters)

OwnRows(df, sector) == SelectSeq(df.rows, LAMBDA r : r[At(df, COL_DEPT)] = VStr(sector))

\* Whether a date is `since` the day 90 days before the clock: on or after it when
\* the clock reads midnight, after it otherwise.
Since90(date) ==
    /\ date.k = "ts"
    /\ IF now.midnight THEN date.n >= now.day - 90 ELSE date.n > now.day - 90

\* The trend of record r when `recent` are the recent rows among `rows`.
TrendIs(r, df, rows, recent) ==
    LET closed(rs) == Len(SelectSeq(rs, LAMBDA row : row[At(df, COL_STATUS)] = VStr(ST_CLOSED)))
    IN /\ r.recent_compliance = Percentage(closed(recent), Len(recent))
       /\ r.trend_value = Minus(r.recent_compliance, Percentage(closed(rows), Len(rows)))
       /\ r.trend_value.num >= -100 * r.trend_value.den
       /\ r.trend_value.num <= 100 * r.trend_value.den
       /\ recent = <<>> => r.trend_value.num * r.compliance_percentage.den
                              = -r.compliance_percentage.num * r.trend_value.den

C23_SectorPartition ==
    (/\ summary.analyzer \in {"compliance", "incidents"}
     /\ ~summary.raised /\ ~In("sectors", summary.filters)) =>
        \A df \in {ApplyCommonFilters(UnifiedGet(unified_data, AnalyzedType(summary.analyzer)),
                                      summary.filters)} :
            HasColumn(df, COL_DEPT) =>
                /\ {summary.records[i].sector : i \in 1..Len(summary.records)}
                      = UniqueValues(df, COL_DEPT)
                /\ Len(summary.records) = Cardinality(UniqueValues(df, COL_DEPT))
                /\ \A i \in 1..Len(summary.records) :
                      \A r \in {summary.records[i]} :
                          Len(OwnRows(df, r.sector))
                              = IF summary.analyzer = "compliance" THEN r.total_records
                                ELSE r.total_incidents

(***************************************************************************)
(* The Risk Analyzer with a sort order and a recommendation filter: a risk *)
(* assessments CSV file with an activity column, null in some rows, and a  *)
(* risk level column, loaded, unified and summarized.                      *)
(***************************************************************************)
ActivityInputs ==
    TitledTables(<<RawLabel(RiskCsv.column_mapping, 5), VStr(COL_CLASS)>>,
                 <<{VStr(Dig), VStr(Weld), NULL}, {VStr(RISK_HIGH), VStr(LVL_LOW)}>>)

\* The filters of the calls: a recommendation filter or none, a sort order or none.
SortFilterInputs ==
    {[none |-> FALSE, dict |-> <<>>]}
      \cup {[none |-> FALSE, dict |-> [recommendation_filter |-> by]] :
               by \in {ALL, LVL_URGENT, LVL_MEDIUM, LVL_LOW}}
      \cup {[none |-> FALSE, dict |-> [activity_sort |-> order]] :
               order \in {COL_PRIORITY, SORT_NAME, COL_RISK_LEVEL}}
      \cup {[none |-> FALSE, dict |-> [recommendation_filter |-> by, activity_sort |-> order]] :
               by \in {ALL, LVL_URGENT, LVL_MEDIUM, LVL_LOW},
               order \in {COL_PRIORITY, SORT_NAME, COL_RISK_LEVEL}}

InitActivities ==
    /\ \E raw \in ActivityInputs :
          database = [NoDatabase EXCEPT ![RiskCsv.filename] = CsvFile(raw)]
    /\ data_sources = <<>>
    /\ unified_data = <<>>
    /\ pc = "start"
    /\ now = Epoch
    /\ summary = NoCall
    /\ labels = NoLabels

\* get_risk_activities_summary(self.unified_data, filters) with a filters dict of the
\* sort and recommendation controls.
GetSortedRiskActivities ==
    /\ pc = "unified"
    /\ \E filters \in SortFilterInputs :
          \E res \in {RiskActivitiesSummary(unified_data, filters)} :
              summary' = [analyzer |-> "risk", filters |-> filters,
                          raised |-> res.raised, records |-> res.records]
    /\ pc' = "analyzed"
    /\ UNCHANGED <<database, data_sources, unified_data, now, labels>>

NextActivities == LoadAllData \/ CreateUnifiedDataset \/ GetSortedRiskActivities

SpecActivities == InitActivities /\ [][NextActivities]_vars

\* The activity records of the unified risk assessments: what the call without a
\* sort order and a recommendation filter returns.
ActivityRecords == RiskActivitiesSummary(unified_data, [none |-> FALSE, dict |-> <<>>]).records

\* The priority a recommendation filter selects.
SelectedPriority(by) ==
    CASE by = LVL_URGENT -> {1} [] by = LVL_MEDIUM -> {2} [] by = LVL_LOW -> {3}
      [] OTHER -> {1, 2, 3}

\* Whether the records of the call are those of the selected priority, in the order
\* of the sort.
SelectedAndOrdered ==
    LET out == summary.records
        by  == IF In("recommendation_filter", summary.filters)
               THEN summary.filters.dict.recommendation_filter ELSE ALL
        order == IF In("activity_sort", summary.filters)
                 THEN summary.filters.dict.activity_sort ELSE <<>>
    IN /\ Members(out) = {r \in Members(ActivityRecords) : r.priority \in SelectedPriority(by)}
       /\ Len(out) = Cardinality(Members(out))
       /\ \A i \in 1..(Len(out) - 1) :
             /\ order = COL_PRIORITY => out[i].priority <= out[i + 1].priority
             /\ order = SORT_NAME => ~StrLess(out[i + 1].activity, out[i].activity)
             /\ order = COL_RISK_LEVEL => ~Less(out[i].risk_percentage,
                                                out[i + 1].risk_percentage)

\* C24: a Risk Analyzer call with a recommendation filter returns exactly the
\* activity records of the selected priority, with a sort order it returns them by
\* priority ascending, by name ascending or by risk % descending, and when there is
\* no activity record the call returns an empty result without an error.
C24_SortAndRecommendationFilter ==
    (pc = "analyzed" /\ summary.analyzer = "risk") =>
        /\ ~summary.raised
        /\ SelectedAndOrdered

\* The part of C24 on calls that find an activity record.
C24_WithRecords ==
    (pc = "analyzed" /\ summary.analyzer = "risk" /\ ActivityRecords # <<>>) =>
        /\ ~summary.raised
        /\ SelectedAndOrdered

\* The loaded tables tagged with the semantic type t.
TablesTagged(t) == SelectSeq(TaggedTables, LAMBDA table : UnifiedTypeOf(table.df) = t)

\* The rows of the tables, as pairs of a table and a row position.
SourceRows(tables) ==
    {<<k, i>> : k \in 1..Len(tables), i \in 1..MaxRows} \cap
        UNION {{<<k, i>> : i \in 1..NRows(tables[k].df)} : k \in 1..Len(tables)}

\* Whether row p of U holds the values of row i of the table in the table's data
\* columns.
ComesFrom(U, p, table, i) ==
    \A j \in 1..NCols(table.df) :
        table.df.cols[j] \in DataColumns(table) =>
            /\ HasColumn(U, table.df.cols[j])
            /\ SameValue(U.rows[p][At(U, table.df.cols[j])], table.df.rows[i][j])

\* C25: for every semantic type t the unified dataset of t has as many rows as the
\* loaded tables tagged t together, each of its rows is a row of one of those
\* tables, and the rows of a table stand in the table's order.
C25_RowsPreserved ==
    pc = "unified" =>
        \A t \in {TYPE_INSPECTIONS, TYPE_INCIDENTS, TYPE_RISK_ASSESSMENTS} :
            \A U \in {UnifiedGet(unified_data, t)}, tables \in {TablesTagged(t)} :
                /\ Cardinality(SourceRows(tables)) = NRows(U)
                /\ \E place \in [SourceRows(tables) -> 1..NRows(U)] :
                      /\ \A a, b \in SourceRows(tables) : a # b => place[a] # place[b]
                      /\ \A a, b \in SourceRows(tables) :
                            (a[1] = b[1] /\ a[2] < b[2]) => place[a] < place[b]
                      /\ \A a \in SourceRows(tables) :
                            ComesFrom(U, place[a], tables[a[1]], a[2])

\* The workbook sheet and the CSV file, two rows each with different statuses in the
\* rows of the sheet, have been unified into four rows.
C25_Witness ==
    /\ pc = "unified"
    /\ Len(TablesTagged(TYPE_INSPECTIONS)) = 2
    /\ \A k \in 1..2 : NRows(TablesTagged(TYPE_INSPECTIONS)[k].df) = 2
    /\ NRows(UnifiedGet(unified_data, TYPE_INSPECTIONS)) = 4
    /\ \E table \in {TablesTagged(TYPE_INSPECTIONS)[1].df} :
          /\ HasColumn(table, COL_STATUS)
          /\ table.rows[1][At(table, COL_STATUS)] # table.rows[2][At(table, COL_STATUS)]

(***************************************************************************)
(* The Status Canonicalizer twice on a table with a status column and a    *)
(* department column: a department cell may hold a key of the synonym      *)
(* table.                                                                  *)
(***************************************************************************)
InitRestatus ==
    /\ \E df \in UNION {{[cols |-> <<COL_STATUS, COL_DEPT>>, dtypes |-> <<"object", "object">>,
                          rows |-> [i \in 1..n |-> <<cells[i], depts[i]>>]] :
                            cells \in [1..n -> StatusCells],
                            depts \in [1..n -> {VStr(Ops), VStr(<<"O", "p", "e", "n">>)}]} :
                                n \in 1..MaxRows} :
          summary = [analyzer |-> "_standardize_status_values", input |-> df, df |-> df,
                     prev |-> df]
    /\ database = NoDatabase
    /\ data_sources = <<>>
    /\ unified_data = <<>>
    /\ pc = "idle"
    /\ now = Epoch
    /\ labels = NoLabels

\* df = self._standardize_status_values(df) on the table the first call returned.
StandardizeStatusAgain ==
    /\ pc = "canonical"
    /\ summary' = [summary EXCEPT !.prev = summary.df,
                                  !.df = StandardizeStatusValues(summary.df)]
    /\ pc' = "canonical again"
    /\ UNCHANGED <<database, data_sources, unified_data, now, labels>>

NextRestatus == StandardizeStatus \/ StandardizeStatusAgain

SpecRestatus == InitRestatus /\ [][NextRestatus]_vars

\* C26: the Status Canonicalizer replaces, in a column whose name holds a status
\* token, every value that is a key of the synonym table by the value the table gives
\* it, and leaves every other value, null included, and every other column as they
\* were; a second run changes nothing.
C26_StatusPassThroughIdempotent ==
    /\ pc \in {"canonical", "canonical again"} =>
          /\ summary.df.cols = summary.input.cols
          /\ \A i \in 1..NRows(summary.input) : \A j \in 1..NCols(summary.input) :
                \A in \in {summary.input.rows[i][j]}, out \in {summary.df.rows[i][j]} :
                    IF /\ \E kw \in StatusKeywords : Contains(Lower(summary.input.cols[j]), kw)
                       /\ in.k = "str" /\ in.s \in StatusKeys
                    THEN \E m \in 1..Len(status_mappings) :
                            status_mappings[m][1] = in.s /\ out = VStr(status_mappings[m][2])
                    ELSE out = in
    /\ pc = "canonical again" => summary.df = summary.prev

\* A status column holding 'Closed' and a spelling the table does not hold, beside a
\* department cell 'Open', has been canonicalized twice.
C26_Witness ==
    /\ pc = "canonical again"
    /\ NRows(summary.input) = 2
    /\ summary.input.rows[1] = <<VStr(<<"C", "l", "o", "s", "e", "d">>), VStr(<<"O", "p", "e", "n">>)>>
    /\ summary.input.rows[2][1].k = "str"
    /\ summary.input.rows[2][1].s \notin StatusKeys \cup {ST_OPEN, ST_CLOSED}
    /\ summary.df.rows[1] = <<VStr(ST_CLOSED), VStr(<<"O", "p", "e", "n">>)>>
    /\ summary.df.rows[2] = summary.input.rows[2]

\* C27: once the Text Canonicalizer has run, no cell of a text column has blanks at
\* its ends or is the text "nan" or the empty text (such cells are null), the numeric
\* and datetime columns are as they were, and a second run changes nothing.
C27_TextCanonical ==
    LastStep = "Text Canonicalizer" =>
        /\ \A j \in 1..NCols(summary.df) :
              IF summary.prev.dtypes[j] = "object"
              THEN \A i \in 1..NRows(summary.df) :
                      \A cell \in {summary.df.rows[i][j]} :
                          \/ cell = NULL
                          \/ /\ cell.k = "str"
                             /\ cell.s \notin {<<>>, <<"n", "a", "n">>}
                             /\ cell.s[1] \notin Whitespace
                             /\ cell.s[Len(cell.s)] \notin Whitespace
              ELSE /\ summary.df.dtypes[j] = summary.prev.dtypes[j]
                   /\ \A i \in 1..NRows(summary.df) :
                         summary.df.rows[i][j] = summary.prev.rows[i][j]
        /\ CleanTextData(summary.df) = summary.df

\* The part of C27 on tables whose labels are pairwise distinct.
C27_DistinctLabels ==
    (\A j \in 1..NCols(summary.df) : ~IsDuplicated(summary.df, summary.df.cols[j]))
        => C27_TextCanonical

\* C28: after the Column Mapper the labels of the table are pairwise distinct, so the
\* Type Coercer and every later step receive a table with unique labels.
C28_LabelsDistinctAfterMapping ==
    (summary.steps # <<>> /\ "Column Mapper" \in Members(summary.steps)) =>
        \A j, h \in 1..NCols(summary.df) :
            summary.df.cols[j] = summary.df.cols[h] => j = h

(***************************************************************************)
(* The analytics calls one after another on the unified datasets of one    *)
(* source.  A DataFrame is an object: the call frame of the Risk Analyzer  *)
(* says which object filtered_risk_df names,                               *)
(*   summary.ref = "unified" : the unified dataset itself                  *)
(*   summary.ref = "copy"    : a DataFrame of the call, held in summary.df *)
(* and an assignment to a column of filtered_risk_df changes that object.  *)
(***************************************************************************)
\* Series.value_counts().to_dict() of the column `label`: the count of each non-null
\* value; {} without the column.
ValueCounts(df, label) ==
    IF ~HasColumn(df, label) THEN <<>>
    ELSE [v \in {c \in {df.rows[i][At(df, label)] : i \in 1..NRows(df)} : NotNa(c)} |->
             Cardinality({i \in 1..NRows(df) : df.rows[i][At(df, label)] = v})]

\* _get_date_range: the least and the greatest date, None (<<>>) without a datetime
\* column 'التاريخ' or without a date in it.
GetDateRange(df) ==
    IF HasColumn(df, COL_DATE) /\ df.dtypes[At(df, COL_DATE)] = "datetime64"
    THEN LET valid_dates == {df.rows[i][At(df, COL_DATE)].n :
                                i \in {h \in 1..NRows(df) : NotNa(df.rows[h][At(df, COL_DATE)])}}
         IN IF valid_dates # {}
            THEN [min_date |-> CHOOSE d \in valid_dates : \A e \in valid_dates : d <= e,
                  max_date |-> CHOOSE d \in valid_dates : \A e \in valid_dates : d >= e]
            ELSE <<>>
    ELSE <<>>

\* generate_kpi_data: the KPIs of the datasets that have rows.
GenerateKpiData(unified) ==
    Bind(SelectSeq(unified, LAMBDA u : ~IsEmpty(u.df)), LAMBDA live :
        [i \in 1..Len(live) |->
            [type |-> live[i].type,
             total_records |-> NRows(live[i].df),
             date_range |-> GetDateRange(live[i].df),
             status_distribution |-> ValueCounts(live[i].df, COL_STATUS),
             department_distribution |->
                 IF HasColumn(live[i].df, COL_DEPT) THEN ValueCounts(live[i].df, COL_DEPT)
                 ELSE ValueCounts(live[i].df, COL_SECTOR),
             activity_distribution |-> ValueCounts(live[i].df, COL_ACTIVITY)]])

\* get_data_quality_report: the report of the datasets that have rows (the memory
\* usage, which depends on the interpreter, is left out).
GetDataQualityReport(unified) ==
    Bind(SelectSeq(unified, LAMBDA u : ~IsEmpty(u.df)), LAMBDA live :
        [i \in 1..Len(live) |->
            Bind(live[i].df, LAMBDA df :
                Bind(Cardinality({<<r, j>> \in (1..NRows(df)) \X (1..NCols(df)) :
                                     IsNa(df.rows[r][j])}),
                     LAMBDA missing_values_count :
                         [type |-> live[i].type,
                          total_rows |-> NRows(df),
                          total_columns |-> NCols(df),
                          missing_values_count |-> missing_values_count,
                          missing_data_percentage |->
                              Percentage(missing_values_count, NRows(df) * NCols(df)),
                          duplicate_rows |->
                              Cardinality({r \in 1..NRows(df) :
                                              \E h \in 1..(r - 1) : df.rows[h] = df.rows[r]}),
                          data_types |-> df.dtypes]))])

\* dashboard_analyzer.py line 47 without .copy(): filtered_df names the table handed
\* over until a filter selects rows of it.
FilteredRefAlias(filters) ==
    IF \/ In("date_range", filters) \/ In("sectors", filters) \/ In("status", filters)
       \/ In("priority", filters) \/ In("risk_level", filters) \/ In("search_query", filters)
    THEN "copy" ELSE "unified"

\* dashboard_analyzer.py line 47, filtered_df = df.copy(): the object that
\* _apply_common_filters returns is a DataFrame of the call.
FilteredRef(filters) == "copy"

\* The unified datasets with the risk assessments replaced by df.
WithRiskAssessments(unified, df) ==
    [i \in 1..Len(unified) |->
        IF unified[i].type = TYPE_RISK_ASSESSMENTS THEN [unified[i] EXCEPT !.df = df]
        ELSE unified[i]]

\* Small sources of the three types; the risk assessments come without and with a
\* risk level column.
ReadOnlyInputs ==
    ({InspectionsCsv.filename} \X
        TitledTables(<<RawLabel(InspectionsCsv.column_mapping, 2),
                       RawLabel(InspectionsCsv.column_mapping, 4),
                       RawLabel(InspectionsCsv.column_mapping, 5)>>,
                     <<{VStr(DateText(NewDay))}, {VStr(<<"C", "l", "o", "s", "e", "d">>)},
                       {VStr(Ops), VStr(HR)}>>))
      \cup ({IncidentsCsv.filename} \X
              TitledTables(<<RawLabel(IncidentsCsv.column_mapping, 3),
                             RawLabel(IncidentsCsv.column_mapping, 4)>>,
                           <<{VStr(<<"O", "p", "e", "n">>)}, {VStr(Ops), VStr(HR)}>>))
      \cup ({RiskCsv.filename} \X
              (TitledTables(<<RawLabel(RiskCsv.column_mapping, 5),
                              RawLabel(RiskCsv.column_mapping, 6)>>,
                            <<{VStr(Dig)}, {VStr(<<"0", ".", "8">>), VStr(<<"0", ".", "5">>)}>>)
                 \cup TitledTables(<<RawLabel(RiskCsv.column_mapping, 5), VStr(COL_CLASS)>>,
                                   <<{VStr(Dig)}, {VStr(RISK_ELEVATED), VStr(LVL_LOW)}>>)))

InitReadOnly ==
    /\ \E source \in ReadOnlyInputs :
          database = [NoDatabase EXCEPT ![source[1]] = CsvFile(source[2])]
    /\ data_sources = <<>>
    /\ unified_data = <<>>
    /\ pc = "start"
    /\ now = Epoch
    /\ summary = NoCall
    /\ labels = NoLabels

\* get_risk_activities_summary, lines 236-248: the early returns and the filters.
FilterRiskAssessments ==
    /\ pc = "unified"
    /\ \E filters \in FilterInputs :
          IF IsEmpty(UnifiedGet(unified_data, TYPE_RISK_ASSESSMENTS))
          THEN /\ summary' = [analyzer |-> "risk", filters |-> filters,
                              raised |-> FALSE, records |-> <<>>]
               /\ pc' = "analyzed"
          ELSE IF filters.none
          THEN /\ summary' = [analyzer |-> "risk", filters |-> filters,
                              raised |-> TRUE, records |-> <<>>]
               /\ pc' = "analyzed"
          ELSE /\ summary' = [analyzer |-> "risk", filters |-> filters,
                              raised |-> FALSE, records |-> <<>>,
                              ref |-> FilteredRef(filters),
                              df |-> ApplyCommonFilters(
                                         UnifiedGet(unified_data, TYPE_RISK_ASSESSMENTS),
                                         filters)]
               /\ pc' = "risk_filtered"
    /\ UNCHANGED <<database, data_sources, unified_data, now, labels>>

\* Lines 257-275: without an activity column the call returns; else the risk level
\* column is assigned to the object filtered_risk_df names when it has none.
DeriveRiskLevelColumn ==
    /\ pc = "risk_filtered"
    /\ IF ~HasColumn(summary.df, COL_ACTIVITY)
       THEN /\ summary' = [analyzer |-> "risk", filters |-> summary.filters,
                           raised |-> FALSE, records |-> <<>>]
            /\ pc' = "analyzed"
            /\ UNCHANGED unified_data
       ELSE /\ pc' = "risk_levelled"
            /\ IF summary.ref = "copy"
               THEN /\ summary' = [summary EXCEPT !.df = WithRiskLevel(summary.df)]
                    /\ UNCHANGED unified_data
               ELSE /\ unified_data' =
                          WithRiskAssessments(
                              unified_data,
                              WithRiskLevel(UnifiedGet(unified_data, TYPE_RISK_ASSESSMENTS)))
                    /\ UNCHANGED summary
    /\ UNCHANGED <<database, data_sources, now, labels>>

\* Lines 277-348: the records of the activities, filtered and sorted, are returned.
SummarizeRiskActivities ==
    /\ pc = "risk_levelled"
    /\ \E res \in {RiskActivitiesSummary(unified_data, summary.filters)} :
          summary' = [analyzer |-> "risk", filters |-> summary.filters,
                      raised |-> res.raised, records |-> res.records]
    /\ pc' = "analyzed"
    /\ UNCHANGED <<database, data_sources, unified_data, now, labels>>

\* generate_kpi_data(self.unified_data)
GenerateKpis ==
    /\ pc = "unified"
    /\ summary' = [analyzer |-> "kpi", filters |-> [none |-> FALSE, dict |-> <<>>],
                   raised |-> FALSE, records |-> GenerateKpiData(unified_data)]
    /\ pc' = "analyzed"
    /\ UNCHANGED <<database, data_sources, unified_data, now, labels>>

\* get_data_quality_report(self.unified_data)
GenerateQualityReport ==
    /\ pc = "unified"
    /\ summary' = [analyzer |-> "quality", filters |-> [none |-> FALSE, dict |-> <<>>],
                   raised |-> FALSE, records |-> GetDataQualityReport(unified_data)]
    /\ pc' = "analyzed"
    /\ UNCHANGED <<database, data_sources, unified_data, now, labels>>

\* The caller goes on to its next call.
NextCall ==
    /\ pc = "analyzed"
    /\ pc' = "unified"
    /\ UNCHANGED <<database, data_sources, unified_data, now, summary, labels>>

NextReadOnly ==
    \/ LoadAllData
    \/ CreateUnifiedDataset
    \/ GetComplianceSummary
    \/ GetIncidentsSummary
    \/ FilterRiskAssessments
    \/ DeriveRiskLevelColumn
    \/ SummarizeRiskActivities
    \/ GenerateKpis
    \/ GenerateQualityReport
    \/ NextCall

SpecReadOnly == InitReadOnly /\ [][NextReadOnly]_vars

\* C29: every step of an analytics call (Compliance, Risk and Incident analyzers, KPI
\* Aggregator, Quality Reporter) leaves the unified datasets as they are, also when
\* the Risk Analyzer derives a risk level column, and create_unified_dataset leaves
\* the loaded tables as they are.
C29_AnalyticsReadOnly ==
    [][/\ pc \in {"unified", "risk_filtered", "risk_levelled", "analyzed"} =>
              unified_data' = unified_data /\ data_sources' = data_sources
       /\ pc = "loaded" => data_sources' = data_sources]_vars

\* The Risk Analyzer has derived the risk level column on its own table; the unified
\* risk assessments have none.
C29_Witness ==
    /\ pc = "risk_levelled"
    /\ summary.ref = "copy"
    /\ HasColumn(summary.df, COL_CLASS)
    /\ NRows(summary.df) = NRows(UnifiedGet(unified_data, TYPE_RISK_ASSESSMENTS))
    /\ ~HasColumn(UnifiedGet(unified_data, TYPE_RISK_ASSESSMENTS), COL_CLASS)

\* C30: in every record of the Compliance analyzer closed + open = total with
\* 0 <= closed <= total, and in every record of the Incident analyzer
\* closed + open = recommendations with 0 <= closed <= recommendations; no record
\* has a negative open count.
C30_CountsConsistent ==
    \A i \in 1..Len(summary.records) :
        \A r \in {summary.records[i]} :
            /\ summary.analyzer = "compliance" =>
                  /\ r.closed_records + r.open_records = r.total_records
                  /\ 0 <= r.closed_records /\ r.closed_records <= r.total_records
                  /\ r.open_records >= 0
            /\ summary.analyzer = "incidents" =>
                  /\ r.closed + r.open = r.recommendations_count
                  /\ 0 <= r.closed /\ r.closed <= r.recommendations_count
                  /\ r.open >= 0

\* The part of C30 on the records of the Compliance analyzer.
C30_ComplianceCounts ==
    summary.analyzer = "compliance" => C30_CountsConsistent

====
